---------------------------- MODULE Spec2Model ----------------------------
(***************************************************************************)
(* Model of the task-execution core of Py-Assistant:                       *)
(*   - core/lane_queue.py : WAQStorage (write-ahead files) and LaneQueue   *)
(*     (per-lane asyncio queues and worker tasks);                         *)
(*   - core/agent_spawner.py : AgentSpawner.spawn (tool-calling loop).     *)
(*                                                                         *)
(* asyncio is modelled as a single event loop: `running` names the task    *)
(* that currently holds the loop (0 = the loop is idle and may pick any    *)
(* ready task).  A task keeps the loop until it suspends in an await that  *)
(* really blocks, or ends.  asyncio.Queue() is unbounded, so put() never   *)
(* suspends, and get() on a non-empty queue never suspends.                *)
(***************************************************************************)
EXTENDS Integers, Sequences, FiniteSets, TLC

(***************************************************************************)
(* Bounds of the model.                                                    *)
(***************************************************************************)
MaxEnqueues == 3
MaxCrashes == 1
MaxStoreWrites == 3
MaxRegistered == 1
\* resolution of time.time() relative to the millisecond of the file name
TicksPerMs == 2
\* writes made to plugin files from outside, and calls of PluginManager.run
MaxEdits == 1
MaxRuns == 2

Lanes == {"x", "y"}

(***************************************************************************)
(* Python values used as payloads.  A payload is `Any`; the transports     *)
(* submit text.  ty = "str" with v = "lone_surrogate" is a str that utf-8  *)
(* cannot encode; ty = "object" is a value json.dumps rejects.             *)
(***************************************************************************)
PyStr(s) == [ty |-> "str", v |-> s]
PyTuple(s) == [ty |-> "tuple", v |-> s]
PyList(s) == [ty |-> "list", v |-> s]
PyObject(s) == [ty |-> "object", v |-> s]

\* payloads given to WAQStorage on its own, and payloads submitted to a lane
Payloads == {PyStr("a"), PyTuple("a"), PyObject("a"), PyStr("lone_surrogate")}
\* payloads whose record cannot be written whole: json.dumps raises, or
\* write_text raises after the file was created
UnwritablePayloads == {PyObject("a"), PyStr("lone_surrogate")}
LanePayloads == {PyStr("a"), PyObject("a")}

\* callback_factory(lane_id): the handler a transport builds for a lane.
CallbackFactory(lane_id) == <<"cb", lane_id>>

(***************************************************************************)
(* json.dumps / json.loads on the values above.                            *)
(***************************************************************************)
JsonEncodable(py) == py.ty \in {"str", "tuple", "list"}

ToJson(py) ==
    IF py.ty = "str" THEN [j |-> "string", v |-> py.v]
    ELSE [j |-> "array", v |-> py.v]

FromJson(js) ==
    IF js.j = "string" THEN PyStr(js.v) ELSE PyList(js.v)

\* encoding="utf-8" of write_text: a lone surrogate cannot be encoded.
Utf8Encodable(js) == js.v # "lone_surrogate"

(***************************************************************************)
(* WAQStorage.  The directory is the set of files [name, text]; text is    *)
(* <<obj>> for a JSON object and <<>> for an empty (unparsable) file.      *)
(***************************************************************************)
NoWaqId == [lane |-> "", ms |-> 0, uuid |-> 0]

\* f"{lane_id}__{int(time.time() * 1000)}__{uuid.uuid4().hex[:8]}"
MakeWaqId(lane_id, t, u) ==
    [lane |-> lane_id, ms |-> t \div TicksPerMs, uuid |-> u]

FileNames(d) == {f.name : f \in d}

\* path.write_text(json.dumps(item)) inside try/except: the directory after
\* the call.  json.dumps raising leaves no file; an encoding error raises
\* after open(..., "w") has created the file, leaving it empty.
WriteFile(d, waq_id, lane_id, payload, t) ==
    IF ~JsonEncodable(payload) THEN d
    ELSE LET obj == [waq_id |-> waq_id, lane_id |-> lane_id,
                     payload |-> ToJson(payload), ts |-> t]
             rest == {f \in d : f.name # waq_id}
         IN IF Utf8Encodable(obj.payload)
            THEN rest \cup {[name |-> waq_id, text |-> <<obj>>]}
            ELSE rest \cup {[name |-> waq_id, text |-> <<>>]}

\* The record of waq_id was persisted whole.
Persisted(d, waq_id) == \E f \in d : f.name = waq_id /\ f.text # <<>>

\* faulty variant: removes every record of the lane
CompleteLaneMutant(d, waq_id) == {f \in d : f.name.lane # waq_id.lane}

\* path.unlink(missing_ok=True)
Complete(d, waq_id) == {f \in d : f.name # waq_id}

\* json.loads(f.read_text()) of one file: <<item>> or <<>> when it raises.
ReadFile(f) ==
    IF f.text = <<>> THEN <<>>
    ELSE LET obj == f.text[1]
         IN <<[waq_id |-> obj.waq_id, lane_id |-> obj.lane_id,
               payload |-> FromJson(obj.payload), ts |-> obj.ts]>>

RECURSIVE SortByTs(_)
\* items.sort(key=lambda x: x.get("ts", 0)) over a set of items
SortByTs(items) ==
    IF items = {} THEN <<>>
    ELSE LET first == CHOOSE i \in items : \A k \in items : i.ts <= k.ts
         IN <<first>> \o SortByTs(items \ {first})

\* faulty variant: one unreadable file makes the call return nothing
LoadOrphansAllOrNothingMutant(d) ==
    IF \E f \in d : ReadFile(f) = <<>> THEN <<>>
    ELSE SortByTs({ReadFile(f)[1] : f \in d})

LoadOrphans(d) ==
    SortByTs({ReadFile(f)[1] : f \in {g \in d : ReadFile(g) # <<>>}})


(***************************************************************************)
(* State.                                                                  *)
(*   disk     the WAQ directory (survives a crash)                         *)
(*   now      time.time(), advanced by every write                         *)
(*   nextN    number of the next submission (stands for the uuid4 part)    *)
(*   waqOn    LaneQueue._waq is not None                                   *)
(*   queues   LaneQueue._queues : lane_id -> asyncio.Queue contents        *)
(*   active   LaneQueue._active                                            *)
(*   workers  the _worker tasks created so far, in creation order          *)
(*   running  index of the task holding the event loop, 0 when idle        *)
(*   phase    "boot" after construction (recover_orphans is called once,   *)
(*            before the bot starts), then "run"                           *)
(*   crashes  number of process deaths so far                              *)
(*   hist     per submission n: what was submitted and, for the current    *)
(*            process, how it reached a queue and what its handler did     *)
(*   wlog     WAQStorage used on its own: the ids write() returned         *)
(***************************************************************************)
VARIABLES disk, now, nextN, waqOn, queues, active, workers, running, phase,
          crashes, hist, wlog

(***************************************************************************)
(* State of AgentSpawner and of one spawn() call.                          *)
(*   customRoles  AgentSpawner._custom_roles                               *)
(*   spPc         "idle" before spawn is called, "loop" at the test of the *)
(*                while loop, "done" once spawn has returned, "raised"     *)
(*                once an exception has left spawn                         *)
(*   spConfig     <<config>> found for the role, <<>> before / if none     *)
(*   messages     the list `messages`                                      *)
(*   response     the last value returned by self._llm.chat                *)
(*   rounds       the counter `rounds`                                     *)
(*   result       <<value>> returned by spawn, <<>> before                 *)
(*   execLog      names passed to self._mcp.execute, in call order         *)
(*   toolLog      per tool call handled by the loop: round, id, name and   *)
(*                the content of its tool-result turn                      *)
(*   chatLog      per call of self._llm.chat: the messages and tools given *)
(***************************************************************************)
VARIABLES customRoles, spPc, spConfig, messages, response, rounds, result,
          execLog, toolLog, chatLog

spawnVars == <<customRoles, spPc, spConfig, messages, response, rounds,
               result, execLog, toolLog, chatLog>>

(***************************************************************************)
(* State of the MCPRouter used on its own.                                 *)
(*   mcpTools     self._tools: an insertion-ordered dict, kept as the      *)
(*                sequence of its entries                                  *)
(*   decorators   the decorators register() has returned so far            *)
(*   mcpLatest    per name, the entry of the latest registration made      *)
(*   mcpLast      the last call of execute: its arguments, its outcome and *)
(*                self._tools as it was when the call was made             *)
(***************************************************************************)
VARIABLES mcpTools, decorators, mcpLatest, mcpLast

routerVars == <<mcpTools, decorators, mcpLatest, mcpLast>>

(***************************************************************************)
(* State of the PluginManager and of its plugin directory.                 *)
(*   pmPc         "new" before PluginManager.__init__ has run, then "ready"*)
(*   files        plugins_dir: per file stem, the source text and the      *)
(*                mtime in whole seconds                                   *)
(*   pycache      plugins_dir/__pycache__: per stem, the compiled code and *)
(*                the mtime and size of the source it was compiled from    *)
(*   plugins      self._plugins: name -> loaded module                     *)
(*   manifests    self._manifests: name -> manifest                        *)
(*   manifestFiles  plugins_dir/manifests: name -> manifest                *)
(*   runCall      the run() call in progress, <<>> when there is none      *)
(*   threads      the threads started by run() that are waited for or      *)
(*                were abandoned at a timeout, by call number              *)
(*   lastRun      the run() call that returned last, and its value, until  *)
(*                the manager is called again                              *)
(*   runs         number of run() calls made                               *)
(*   edits        number of writes made to the plugin files from outside   *)
(*   pmLast       the call of discovery, reload or install that returned   *)
(*                last, and its result, until the manager is called again  *)
(*                or a file is edited                                      *)
(*   pmTools      self._mcp._tools: the registry of the MCPRouter the      *)
(*                manager was given                                        *)
(*   pluginKeys   list(self._plugins.keys()): the names of the loaded      *)
(*                plugins in the order the dict keeps them                 *)
(*   installCall  the install_from_github() call that waits in urlopen:    *)
(*                <<url>>, or <<>> when there is none                      *)
(***************************************************************************)
VARIABLES pmPc, files, pycache, plugins, manifests, manifestFiles,
          runCall, threads, lastRun, runs, edits, pmLast, pmTools,
          pluginKeys, installCall

pluginVars == <<pmPc, files, pycache, plugins, manifests, manifestFiles,
                runCall, threads, lastRun, runs, edits, pmLast, pmTools,
                pluginKeys, installCall>>

(***************************************************************************)
(* State of one call of Assistant.process on a new Assistant.              *)
(*   asPc         position of the call: "idle", "called" after the first   *)
(*                self.llm.chat, "final" after _handle_tool_calls, "done", *)
(*                or "raised" when an exception left the call              *)
(*   asMessages   the list `messages`                                      *)
(*   asResponse   the last value returned by self.llm.chat                 *)
(*   asChats      number of calls of self.llm.chat                         *)
(*   asExecLog    names passed to self.mcp.execute, in call order          *)
(*   asResult     <<value>> returned by process, <<>> before               *)
(***************************************************************************)
VARIABLES asPc, asMessages, asResponse, asChats, asExecLog, asResult

assistantVars == <<asPc, asMessages, asResponse, asChats, asExecLog, asResult>>

hostVars == <<routerVars, pluginVars, assistantVars>>


(***************************************************************************)
(* AgentSpawner: roles, registry and language model.                       *)
(***************************************************************************)
\* `MAX_ROUNDS = 5` in spawn
MAX_ROUNDS == 5

\* Optional[list[str]]: None, or a list of tool names
WlNone == [isNone |-> TRUE, names |-> {}]
Wl(names) == [isNone |-> FALSE, names |-> names]

\* truth value of `config.tools_whitelist`: None and [] are both falsy
Truthy(wl) == ~wl.isNone /\ wl.names # {}

SubAgentConfig(name, role, system_prompt, tools_whitelist) ==
    [name |-> name, role |-> role, system_prompt |-> system_prompt,
     tools_whitelist |-> tools_whitelist]

\* PREDEFINED_ROLES, of which the model keeps "investigador"
PREDEFINED_ROLES ==
    [r \in {"investigador"} |->
        SubAgentConfig("Agente Investigador", "investigador",
                       "Eres un agente de investigacion especializado.",
                       Wl({"buscar_web", "extraer_texto_web",
                           "buscar_imagen_web", "firecrawl",
                           "descargar_archivo", "resumir_texto"}))]

\* a Python function registered as a tool: its identity and whether a call
\* of it raises
Fn(id, raises) == [id |-> id, raises |-> raises]

\* the schema built by register()
Schema(name, description, parameters) ==
    [type |-> "function",
     function |-> [name |-> name, description |-> description,
                   parameters |-> parameters]]

\* one item of self._tools: the key and {"function": ..., "schema": ...}
ToolEntry(name, func, description, parameters) ==
    [name |-> name, function |-> func,
     schema |-> Schema(name, description, parameters)]

\* `name in self._tools` and `self._tools[name]`
DictHas(d, name) == \E i \in DOMAIN d : d[i].name = name
DictGet(d, name) == d[CHOOSE i \in DOMAIN d : d[i].name = name]

\* faulty variant of DictSet: an existing key keeps its old schema
DictSetKeepsSchemaMutant(d, entry) ==
    IF DictHas(d, entry.name)
    THEN [i \in DOMAIN d |->
            IF d[i].name = entry.name
            THEN [d[i] EXCEPT !.function = entry.function] ELSE d[i]]
    ELSE Append(d, entry)

\* `self._tools[name] = {...}`: an existing key keeps its place in the dict
DictSet(d, entry) ==
    IF DictHas(d, entry.name)
    THEN [i \in DOMAIN d |-> IF d[i].name = entry.name THEN entry ELSE d[i]]
    ELSE Append(d, entry)

\* get_schemas() and get_tool_names()
GetSchemas(d) == [i \in DOMAIN d |-> d[i].schema]
GetToolNames(d) == [i \in DOMAIN d |-> d[i].name]

\* the keyword arguments of a call, kept as the set of their names.
\* `execute(tool_name, **kwargs)` called as execute(name, **args) raises
\* TypeError before its body runs when args has a key that is the name of
\* one of its own parameters
Binds(args) == "tool_name" \notin args /\ "self" \notin args

\* the router of the spawner, the tools registered in it, and the names a
\* model may ask for
SpawnerRegistry ==
    <<ToolEntry("buscar_web", Fn("buscar_web", FALSE), "d", "p"),
      ToolEntry("ejecutar_comando", Fn("ejecutar_comando", FALSE), "d", "p")>>
RegisteredTools == {SpawnerRegistry[i].name : i \in DOMAIN SpawnerRegistry}
RequestedNames == {"buscar_web", "ejecutar_comando"}

\* configs a caller may pass to register_role
CustomConfigs ==
    {SubAgentConfig("Agente Test", r, "Eres un agente de prueba.", wl) :
        r \in {"test_rol", "investigador"},
        wl \in {WlNone, Wl({}), Wl({"buscar_web"})}}

RoleArgs == {"investigador", "test_rol", "rol_inexistente"}

\* responses of the language model: a final answer (content a str, None or
\* the key missing) or a request of tool calls
\* strings of the conversation: a fixed text and the name put into it
Text(fixed, arg) == [ty |-> "str", v |-> <<fixed, arg>>]
PyNone == [ty |-> "None", v |-> <<"", "">>]
\* a tool call; args is the dict spawn gets from the call's "arguments"
ToolCall(id, name, args) == [id |-> id, name |-> name, args |-> args]
Response(has_content, content, tool_calls) ==
    [role |-> "assistant", has_content |-> has_content, content |-> content,
     tool_call_id |-> "", tool_calls |-> tool_calls]

ToolCallLists ==
    {<<ToolCall("tc_1", n, {"query"})>> : n \in RequestedNames}
        \cup {<<ToolCall("tc_1", "ejecutar_comando", {}),
                ToolCall("tc_2", "buscar_web", {"query"})>>,
              <<ToolCall("tc_1", "buscar_web", {"query"}),
                ToolCall("tc_2", "buscar_web", {"tool_name"})>>}

Responses ==
    {Response(TRUE, Text("Respuesta final", ""), <<>>),
     Response(TRUE, Text("", ""), <<>>),
     Response(TRUE, PyNone, <<>>),
     Response(FALSE, PyNone, <<>>)}
        \cup {Response(TRUE, PyNone, c) : c \in ToolCallLists}

Turn(role, content, tool_call_id) ==
    [role |-> role, has_content |-> TRUE, content |-> content,
     tool_call_id |-> tool_call_id, tool_calls |-> <<>>]

\* `PREDEFINED_ROLES.get(role) or self._custom_roles.get(role)`:
\* <<config>> or <<>>
LookupRoleCustomFirstMutant(custom, role) ==
    IF role \in DOMAIN custom THEN <<custom[role]>>
    ELSE IF role \in DOMAIN PREDEFINED_ROLES THEN <<PREDEFINED_ROLES[role]>>
    ELSE <<>>

LookupRole(custom, role) ==
    IF role \in DOMAIN PREDEFINED_ROLES THEN <<PREDEFINED_ROLES[role]>>
    ELSE IF role \in DOMAIN custom THEN <<custom[role]>>
    ELSE <<>>

\* the filter of all_tools by the role's whitelist
FilterTools(all_tools, wl) ==
    IF Truthy(wl) THEN {t \in all_tools : t \in wl.names} ELSE all_tools

\* `if config.tools_whitelist and tool_name not in config.tools_whitelist`
Denied(wl, tool_name) == Truthy(wl) /\ tool_name \notin wl.names

\* f"[DENEGADO] La herramienta '{tool_name}' no esta permitida para este rol."
DenialString(tool_name) ==
    Text("[DENEGADO] La herramienta no esta permitida para este rol.",
         tool_name)

\* the body of MCPRouter.execute(tool_name, **kwargs): an error string for
\* an unknown name or a function that raises, else what the function returns
McpExecute(tools, tool_name) ==
    IF ~DictHas(tools, tool_name)
    THEN Text("Error: herramienta no encontrada.", tool_name)
    ELSE LET func == DictGet(tools, tool_name).function
         IN IF func.raises THEN Text("Error ejecutando", tool_name)
            ELSE Text("resultado", func.id)

\* result_str of one tool call
ResultStr(wl, tools, tool_name) ==
    IF Denied(wl, tool_name) THEN DenialString(tool_name)
    ELSE McpExecute(tools, tool_name)

\* tool_results of one round: one tool turn per call, in call order
ToolResultsReversedMutant(calls, wl, tools) ==
    [i \in DOMAIN calls |->
        Turn("tool",
             ResultStr(wl, tools, calls[Len(calls) + 1 - i].name),
             calls[Len(calls) + 1 - i].id)]

ToolResults(calls, wl, tools) ==
    [i \in DOMAIN calls |->
        Turn("tool", ResultStr(wl, tools, calls[i].name), calls[i].id)]

\* the names handed to self._mcp.execute in one round, in call order
ExecutedNames(calls, wl) ==
    LET names == [i \in DOMAIN calls |-> calls[i].name]
        NotDenied(n) == ~Denied(wl, n)
    IN SelectSeq(names, NotDenied)

\* the calls of one round at which `self._mcp.execute(tool_name, **args)`
\* raises TypeError: not denied, and args does not bind
RaisingCalls(calls, wl) ==
    {i \in DOMAIN calls : ~Denied(wl, calls[i].name) /\ ~Binds(calls[i].args)}

\* `response.get("content", "El sub-agente no produjo una respuesta.")`:
\* the default is taken only when the key is missing
FallbackText == Text("El sub-agente no produjo una respuesta.", "")
GetContent(resp) ==
    IF resp.has_content THEN resp.content ELSE FallbackText

\* f"{result}" inside the returned block: None is written as "None"
Format(value) == IF value = PyNone THEN Text("None", "") ELSE value

\* `"tool_calls" in response and response["tool_calls"] and rounds < MAX_ROUNDS`
SpawnLoopCond(resp, r) == resp.tool_calls # <<>> /\ r < MAX_ROUNDS

\* responses of the language model given alike to spawn and to process
CompareResponses ==
    {Response(TRUE, Text("Respuesta final", ""), <<>>),
     Response(TRUE, PyNone, <<ToolCall("tc_1", "buscar_web", {"query"})>>),
     Response(TRUE, PyNone,
              <<ToolCall("tc_1", "ejecutar_comando", {}),
                ToolCall("tc_2", "buscar_web", {"tool_name"})>>)}

\* the role spawn is given for the comparison: tools_whitelist is None
UnrestrictedRole ==
    SubAgentConfig("Agente Test", "test_rol", "Eres un agente de prueba.",
                   WlNone)

\* `response.get("content", "No pude generar una respuesta.")` in process
AssistantContent(resp) ==
    IF resp.has_content THEN resp.content
    ELSE Text("No pude generar una respuesta.", "")

\* `if "tool_calls" in response and response["tool_calls"]` in process
AssistantHandlesTools(resp) == resp.tool_calls # <<>>

AssistantIdle ==
    /\ asPc = "idle"
    /\ asMessages = <<>>
    /\ asResponse = Response(FALSE, PyNone, <<>>)
    /\ asChats = 0
    /\ asExecLog = <<>>
    /\ asResult = <<>>

SpawnIdle ==
    /\ customRoles = <<>>
    /\ spPc = "idle"
    /\ spConfig = <<>>
    /\ messages = <<>>
    /\ response = Response(FALSE, PyNone, <<>>)
    /\ rounds = 0
    /\ result = <<>>
    /\ execLog = <<>>
    /\ toolLog = <<>>
    /\ chatLog = <<>>

(***************************************************************************)
(* MCPRouter: what callers register and execute.                           *)
(***************************************************************************)
ToolNames == {"t1", "t2"}
Descriptions == {"d1", "d2"}
ParameterSchemas == {"p1"}
Functions == {Fn("f1", FALSE), Fn("f2", FALSE), Fn("boom", TRUE)}
ExecuteNames == ToolNames \cup {"inexistente"}
ArgDicts == {{}, {"query"}, {"tool_name"}}

\* the closure `decorator` returned by register(name, description, parameters)
Decorator(name, description, parameters) ==
    [name |-> name, description |-> description, parameters |-> parameters]

NoExecute == [op |-> "none"]

RouterIdle ==
    /\ mcpTools = <<>>
    /\ decorators = {}
    /\ mcpLatest = <<>>
    /\ mcpLast = NoExecute

(***************************************************************************)
(* PluginManager: plugin files, modules and manifests.                     *)
(***************************************************************************)
\* the *.py files of plugins_dir, in the order of sorted(glob("*.py"))
SortedStems == <<"_c", "a", "b">>
Stems == {SortedStems[i] : i \in DOMAIN SortedStems}

\* `plugin_path.name.startswith("_")`
Hidden(stem) == stem = "_c"

\* a source text.  text_name and text_execute say whether the text contains
\* "SKILL_NAME" and "def execute"; raises whether executing the module
\* raises; skill_name (<<name>> or <<>>) and has_execute what the module
\* defines once executed; size is the length of the text
Source(id, size, text_name, text_execute, raises, skill_name, has_execute) ==
    [id |-> id, size |-> size, text_name |-> text_name,
     text_execute |-> text_execute, raises |-> raises,
     skill_name |-> skill_name, has_execute |-> has_execute]

V1 == Source("v1", 1, TRUE, TRUE, FALSE, <<"p">>, TRUE)
V2 == Source("v2", 1, TRUE, TRUE, FALSE, <<"p">>, TRUE)
Q1 == Source("q1", 2, TRUE, TRUE, FALSE, <<"q">>, TRUE)
Broken == Source("broken", 2, TRUE, TRUE, TRUE, <<>>, FALSE)
NoName == Source("noname", 3, FALSE, TRUE, FALSE, <<>>, TRUE)
NoExec == Source("noexec", 3, TRUE, FALSE, FALSE, <<"p">>, FALSE)
\* a plugin p that defines SKILL_NAME and execute and no other constant
PNoV == Source("pnov", 4, TRUE, TRUE, FALSE, <<"p">>, TRUE)

Sources == {V1, V2, Q1, Broken, NoName, NoExec, PNoV}

\* a file of plugins_dir and an entry of __pycache__
File(src, mtime) == [src |-> src, mtime |-> mtime]
Bytecode(code, mtime, size) == [code |-> code, mtime |-> mtime, size |-> size]

\* the directories a manager may be constructed on
Dir(fc, fa, fb) ==
    [s \in Stems |-> IF s = "a" THEN fa ELSE IF s = "b" THEN fb ELSE fc]

InitDirs ==
    {Dir(<<>>, <<File(src, 0)>>, <<File(Q1, 0)>>) :
        src \in {V1, Broken, NoName, NoExec}}
    \cup {Dir(<<>>, <<File(V1, 0)>>, <<File(Broken, 0)>>),
          Dir(<<>>, <<File(V1, 0)>>, <<File(V2, 0)>>),
          Dir(<<File(Q1, 0)>>, <<File(V1, 0)>>, <<>>)}

\* the file edited from outside and the texts written to it
EditedStems == {"a"}
EditSources == {V2, Q1, Broken, NoExec, PNoV}

\* a loaded module: the file it was loaded from and the code it runs
Module(stem, code) == [file |-> stem, code |-> code]

\* the module constants VERSION, AUTHOR, ACTIONS and MCP_TOOLS of a source
\* text: <<value>> for a constant the module defines, <<>> for one it does
\* not; MCP_TOOLS is a list of tool names with their functions
ModuleConstants(code) ==
    IF code.id = "v1"
    THEN [version |-> <<"1.0.0">>, author |-> <<"ana">>,
          actions |-> <<{"leer"}>>,
          mcp_tools |-> <<<<[name |-> "t1", fn |-> Fn("v1_t1", FALSE)],
                            [name |-> "t2", fn |-> Fn("v1_t2", FALSE)]>>>>]
    ELSE IF code.id = "v2"
    THEN [version |-> <<"2.0.0">>, author |-> <<"bea">>,
          actions |-> <<{"leer", "borrar"}>>,
          mcp_tools |-> <<<<[name |-> "t1", fn |-> Fn("v2_t1", FALSE)]>>>>]
    ELSE [version |-> <<>>, author |-> <<>>, actions |-> <<>>,
          mcp_tools |-> <<>>]

\* getattr(module, name, default), `attr` being <<value>> or <<>>
GetAttr(attr, default) == IF attr = <<>> THEN default ELSE attr[1]

\* PluginManifest, of which the model keeps name, version, author, actions,
\* source and enabled
PluginManifest(name, version, author, actions, source, enabled) ==
    [name |-> name, version |-> version, author |-> author,
     actions |-> actions, source |-> source, enabled |-> enabled]

\* PluginManifest.from_module(module, source)
FromModule(name, code, source) ==
    PluginManifest(name, GetAttr(ModuleConstants(code).version, "0.0.0"),
                   GetAttr(ModuleConstants(code).author, "local"),
                   GetAttr(ModuleConstants(code).actions, {}), source, TRUE)

\* f"plugin_{plugin_name}_{name}"
PluginToolName(plugin_name, name) ==
    IF plugin_name = "p"
    THEN (IF name = "t1" THEN "plugin_p_t1" ELSE "plugin_p_t2")
    ELSE (IF name = "t1" THEN "plugin_q_t1" ELSE "plugin_q_t2")

RECURSIVE RegisterMcpTools(_, _, _)
\* _register_mcp_tools(module, plugin_name), from the first tool_spec of
\* the list on: each is registered under its prefixed name
RegisterMcpTools(tools, mcp_tools, plugin_name) ==
    IF mcp_tools = <<>> THEN tools
    ELSE RegisterMcpTools(
             DictSet(tools,
                     ToolEntry(PluginToolName(plugin_name,
                                              Head(mcp_tools).name),
                               Head(mcp_tools).fn, "d", "p")),
             Tail(mcp_tools), plugin_name)

\* `d[k] = v` on a dict kept as a function
DictPut(d, k, v) == [x \in DOMAIN d \cup {k} |-> IF x = k THEN v ELSE d[x]]

\* importlib's source loader: the cached bytecode is used when the mtime (in
\* whole seconds) and the size recorded in it are those of the source file
CacheHit(file, cached) ==
    /\ cached # <<>>
    /\ cached[1].mtime = file.mtime
    /\ cached[1].size = file.src.size

\* the code exec_module runs for a file, and __pycache__ afterwards
LoadedCode(file, cached) ==
    IF CacheHit(file, cached) THEN cached[1].code ELSE file.src
CacheAfterLoad(file, cached) ==
    IF CacheHit(file, cached) THEN cached
    ELSE <<Bytecode(file.src, file.mtime, file.src.size)>>

\* faulty variant of Loadable: a module without execute is accepted
LoadableWithoutExecuteMutant(code) ==
    ~code.raises /\ code.skill_name # <<>>

\* exec_module(module) does not raise, and the module has SKILL_NAME and
\* execute
Loadable(code) ==
    ~code.raises /\ code.skill_name # <<>> /\ code.has_execute

\* _load_or_create_manifest: an existing manifest file is kept, with the
\* VERSION of the module when it defines one; else the manifest is made
\* from the module
LoadOrCreateManifest(mfiles, name, code, source) ==
    IF name \in DOMAIN mfiles
    THEN [mfiles[name] EXCEPT
              !.version = GetAttr(ModuleConstants(code).version, @)]
    ELSE FromModule(name, code, source)

\* the state _load_file works on
PmState(ok, ps, ms, mfs, cache, tools, keys) ==
    [ok |-> ok, plugins |-> ps, manifests |-> ms, manifestFiles |-> mfs,
     pycache |-> cache, tools |-> tools, keys |-> keys]

\* the key order of a dict after `d[k] = v`: a new key goes last
KeysPut(keys, k) ==
    IF \E i \in DOMAIN keys : keys[i] = k THEN keys ELSE Append(keys, k)

\* the key order of a dict after `del d[k]`
KeysDel(keys, k) ==
    LET Other(x) == x # k IN SelectSeq(keys, Other)

\* faulty variant of FailedLoad: the modules of the file are unloaded
FailedLoadUnloadsMutant(st, stem, cache) ==
    PmState(FALSE,
            [n \in {x \in DOMAIN st.plugins : st.plugins[x].file # stem} |->
                st.plugins[n]],
            st.manifests, st.manifestFiles, cache, st.tools, st.keys)

\* _load_file returns False: the tables are as they were
FailedLoad(st, stem, cache) ==
    PmState(FALSE, st.plugins, st.manifests, st.manifestFiles, cache,
            st.tools, st.keys)

\* _load_file(plugin_path, source) on the files fs
LoadFile(st, fs, stem, source) ==
    IF fs[stem] = <<>> THEN FailedLoad(st, stem, st.pycache)
    ELSE LET file == fs[stem][1]
             code == LoadedCode(file, st.pycache[stem])
             cache == [st.pycache EXCEPT
                          ![stem] = CacheAfterLoad(file, st.pycache[stem])]
         IN IF ~Loadable(code) THEN FailedLoad(st, stem, cache)
            ELSE LET name == code.skill_name[1]
                     manifest == LoadOrCreateManifest(st.manifestFiles, name,
                                                      code, source)
                 IN PmState(TRUE,
                            DictPut(st.plugins, name, Module(stem, code)),
                            DictPut(st.manifests, name, manifest),
                            DictPut(st.manifestFiles, name, manifest),
                            cache,
                            RegisterMcpTools(
                                st.tools,
                                GetAttr(ModuleConstants(code).mcp_tools, <<>>),
                                name),
                            KeysPut(st.keys, name))

\* _auto_discover, from the i-th file of the sorted directory on
RECURSIVE DiscoverFrom(_, _, _)

DiscoverFrom(st, fs, i) ==
    IF i > Len(SortedStems) THEN st
    ELSE LET stem == SortedStems[i]
         IN IF fs[stem] = <<>> \/ Hidden(stem)
            THEN DiscoverFrom(st, fs, i + 1)
            ELSE DiscoverFrom(LoadFile(st, fs, stem, "local"), fs, i + 1)

AutoDiscover(st, fs) == DiscoverFrom(st, fs, 1)

\* reload(plugin_name) on the state st
ReloadOne(st, fs, plugin_name) ==
    IF plugin_name \notin DOMAIN st.plugins THEN [st EXCEPT !.ok = FALSE]
    ELSE LoadFile(st, fs, st.plugins[plugin_name].file,
                  st.manifests[plugin_name].source)

RECURSIVE ReloadEach(_, _, _)
\* `for name in list(self._plugins.keys()): self.reload(name)`
ReloadEach(st, fs, names) ==
    IF names = <<>> THEN st
    ELSE ReloadEach(ReloadOne(st, fs, Head(names)), fs, Tail(names))

\* a dict without the key k
DictDel(d, k) == [x \in DOMAIN d \ {k} |-> d[x]]

\* install_from_github: the url, kept as what the checks of it find
Url(ends_py, name_ok, stem) ==
    [ends_py |-> ends_py, name_ok |-> name_ok, stem |-> stem]

InstallUrls ==
    {Url(FALSE, TRUE, "a"), Url(TRUE, FALSE, "a"),
     Url(TRUE, TRUE, "a"), Url(TRUE, TRUE, "b")}

\* what the download gives: <<>> when urlopen or decode raises
Downloads == {<<>>} \cup {<<src>> : src \in {V1, Broken, NoExec}}

\* faulty variant of TextuallyValid: "def execute" is not looked for
TextuallyValidNameOnlyMutant(src) == src.text_name

\* `"SKILL_NAME" not in content or "def execute" not in content`, negated
TextuallyValid(src) == src.text_name /\ src.text_execute

\* names callers ask for
PluginNames == {"p", "q"}

\* the thread run() starts: `state` is "running" until module.execute has
\* returned or raised
Thread(name, code, state) ==
    [name |-> name, code |-> code, state |-> state]

\* faulty variant of Containers: the containers are shared by all calls
\* and the first result or error put there is read
ContainersSharedMutant(ths, n) ==
    LET ended == {k \in DOMAIN ths : ths[k].state # "running"}
    IN IF ended = {} THEN ths[n]
       ELSE ths[CHOOSE k \in ended : \A j \in ended : k <= j]

\* result_container and error_container of call n: local to the call, filled
\* by its own thread
Containers(ths, n) == ths[n]

\* faulty variant of RunValue: error_container is not looked at
RunValueIgnoresErrorMutant(thread, container) ==
    IF thread.state = "running"
    THEN Text("Timeout: el plugin tardo mas de", thread.name)
    ELSE IF container.state = "returned"
    THEN Text("resultado", container.code.id)
    ELSE Text("", "")

\* what run() returns after join(): is_alive(), error_container,
\* result_container in that order
RunValue(thread, container) ==
    IF thread.state = "running"
    THEN Text("Timeout: el plugin tardo mas de", thread.name)
    ELSE IF container.state = "raised"
    THEN Text("Error en plugin", container.name)
    ELSE IF container.state = "returned"
    THEN Text("resultado", container.code.id)
    ELSE Text("", "")

NoOp == [op |-> "none"]
NoRun == [n |-> 0, name |-> "", state |-> "none", value |-> Text("", ""),
          prev |-> <<"", "none">>]

PluginIdle ==
    /\ pmPc = "new"
    /\ files = [s \in Stems |-> <<>>]
    /\ pycache = [s \in Stems |-> <<>>]
    /\ plugins = <<>>
    /\ manifests = <<>>
    /\ manifestFiles = <<>>
    /\ runCall = <<>>
    /\ installCall = <<>>
    /\ threads = <<>>
    /\ lastRun = NoRun
    /\ runs = 0
    /\ edits = 0
    /\ pmLast = NoOp
    /\ pmTools = <<>>
    /\ pluginKeys = <<>>

(***************************************************************************)
(* LaneQueue helpers.                                                      *)
(***************************************************************************)
\* _get_queue: the queue table after the call (the lane's queue is created
\* on first use).
GetQueue(qs, lane_id) ==
    IF lane_id \in DOMAIN qs THEN qs ELSE qs @@ (lane_id :> <<>>)

\* queue.put((payload, callback)) on the lane's queue
Put(qs, lane_id, item) == [qs EXCEPT ![lane_id] = Append(@, item)]

\* `if lane_id not in self._active: asyncio.create_task(self._worker(lane_id))`
NewTask(lane_id) == [lane |-> lane_id, pc |-> "created", cur |-> <<>>]

\* faulty variant: one active flag for all lanes
StartWorkerIfAllIdleMutant(ws, act, lane_id) ==
    IF act = {} THEN Append(ws, NewTask(lane_id)) ELSE ws

StartWorkerIfIdle(ws, act, lane_id) ==
    IF lane_id \notin act THEN Append(ws, NewTask(lane_id)) ELSE ws

\* The closure put on the queue: kind "waq_callback" is enqueue's
\* _waq_callback, kind "wrapped" is recover_orphans' _wrapped.
Closure(kind, callback, waq_id) ==
    [kind |-> kind, cb |-> callback, waq_id |-> waq_id]

\* The directory after the closure's own code has run, once the user
\* callback has ended with `outcome`.  _waq_callback completes in a
\* `finally`; _wrapped completes only on the line after `await _cb(p)`.
DiskAfterCallback(d, closure, outcome, waq) ==
    IF closure.kind = "waq_callback"
    THEN IF closure.waq_id # NoWaqId /\ waq
         THEN Complete(d, closure.waq_id) ELSE d
    ELSE IF outcome = "returned" /\ waq THEN Complete(d, closure.waq_id) ELSE d

\* is_active(lane_id): `lane_id in self._active`
IsActive(act, lane_id) == lane_id \in act

\* queue_size(lane_id)
QueueSize(qs, lane_id) ==
    IF lane_id \in DOMAIN qs THEN Len(qs[lane_id]) ELSE 0

\* all_lanes_status(): pending and active for every lane that has a queue
AllLanesStatus(qs, act) ==
    [l \in DOMAIN qs |-> [pending |-> Len(qs[l]), active |-> l \in act]]

\* faulty variant: no except clause, an exception ends the worker
WorkerCatchesNothingMutant(outcome) == outcome = "returned"

\* `except Exception` around `await callback(payload)` in _worker: the
\* worker goes on with its loop after this outcome.
WorkerCatches(outcome) == outcome \in {"returned", "raised"}

\* faulty variant: the loop stops with one item left
LoopCondLeavesOneMutant(q) == Len(q) > 1

\* `while not queue.empty()`
LoopCond(q) == q # <<>>

NoHist == [lane |-> "", payload |-> PyStr(""), cb |-> <<"cb", "">>,
           waq_id |-> NoWaqId, persisted |-> FALSE, via |-> "none",
           calls |-> 0, fin |-> "no", by |-> "", got |-> PyStr(""),
           h |-> <<"cb", "">>]


RECURSIVE RecoverLoop(_, _, _, _)
\* The `for item in orphans` loop of recover_orphans: <<queues, workers>>
\* after it.  No worker runs during the loop (put() does not suspend), so
\* `act` is the same for every item.
RecoverLoop(orphans, qs, ws, act) ==
    IF orphans = <<>> THEN <<qs, ws>>
    ELSE LET item == Head(orphans)
             lane_id == item.lane_id
             wrapped == Closure("wrapped", CallbackFactory(lane_id), item.waq_id)
             entry == [n |-> item.waq_id.uuid, payload |-> item.payload,
                       closure |-> wrapped]
         IN RecoverLoop(Tail(orphans),
                        Put(GetQueue(qs, lane_id), lane_id, entry),
                        StartWorkerIfIdle(ws, act, lane_id),
                        act)

(***************************************************************************)
(* Initial state: a LaneQueue just constructed on an empty directory.      *)
(***************************************************************************)
InitLane ==
    /\ disk = {}
    /\ now = 1
    /\ nextN = 1
    /\ waqOn \in BOOLEAN
    /\ queues = <<>>
    /\ active = {}
    /\ workers = <<>>
    /\ running = 0
    /\ phase = "boot"
    /\ crashes = 0
    /\ hist = <<>>
    /\ wlog = {}
    /\ SpawnIdle
    /\ RouterIdle
    /\ PluginIdle
    /\ AssistantIdle

(***************************************************************************)
(* LaneQueue.enqueue(lane_id, payload, callback): one uninterrupted step.  *)
(***************************************************************************)
Enqueue(lane_id, payload, callback) ==
    /\ phase = "run"
    /\ running = 0
    /\ nextN <= MaxEnqueues
    /\ LET waq_id == IF waqOn THEN MakeWaqId(lane_id, now, nextN) ELSE NoWaqId
           item == [n |-> nextN, payload |-> payload,
                    closure |-> Closure("waq_callback", callback, waq_id)]
       IN /\ disk' = IF waqOn
                     THEN WriteFile(disk, waq_id, lane_id, payload, now)
                     ELSE disk
          /\ now' = IF waqOn THEN now + 1 ELSE now
          /\ queues' = Put(GetQueue(queues, lane_id), lane_id, item)
          /\ workers' = StartWorkerIfIdle(workers, active, lane_id)
          /\ hist' = Append(hist, [NoHist EXCEPT !.lane = lane_id,
                                                 !.payload = payload,
                                                 !.cb = callback,
                                                 !.waq_id = waq_id,
                                                 !.persisted =
                                                     Persisted(disk', waq_id),
                                                 !.via = "enqueue"])
    /\ nextN' = nextN + 1
    /\ UNCHANGED <<waqOn, active, running, phase, crashes, wlog, spawnVars, hostVars>>

(***************************************************************************)
(* LaneQueue.recover_orphans(callback_factory), called once at start.      *)
(***************************************************************************)
RecoverOrphans ==
    /\ phase = "boot"
    /\ running = 0
    /\ LET orphans == IF waqOn THEN LoadOrphans(disk) ELSE <<>>
           res == RecoverLoop(orphans, queues, workers, active)
           ns == {orphans[i].waq_id.uuid : i \in DOMAIN orphans}
       IN /\ queues' = res[1]
          /\ workers' = res[2]
          /\ hist' = [n \in DOMAIN hist |->
                        IF n \in ns THEN [hist[n] EXCEPT !.via = "recovered"]
                        ELSE hist[n]]
    /\ phase' = "run"
    /\ UNCHANGED <<disk, now, nextN, waqOn, active, running, crashes, wlog, spawnVars, hostVars>>

(***************************************************************************)
(* LaneQueue._worker(lane_id), cut at its suspension points.               *)
(***************************************************************************)
\* first step of the task: self._active.add(lane_id); self._get_queue(...)
WorkerStart(w) ==
    /\ w \in DOMAIN workers
    /\ running = 0
    /\ workers[w].pc = "created"
    /\ active' = active \cup {workers[w].lane}
    /\ queues' = GetQueue(queues, workers[w].lane)
    /\ workers' = [workers EXCEPT ![w].pc = "loop"]
    /\ running' = w
    /\ UNCHANGED <<disk, now, nextN, waqOn, phase, crashes, hist, wlog, spawnVars, hostVars>>

\* loop test true: queue.get() and the call of callback(payload)
WorkerPop(w) ==
    /\ w \in DOMAIN workers
    /\ running = w
    /\ workers[w].pc = "loop"
    /\ LoopCond(queues[workers[w].lane])
    /\ LET item == Head(queues[workers[w].lane])
       IN /\ queues' = [queues EXCEPT ![workers[w].lane] = Tail(@)]
          /\ workers' = [workers EXCEPT ![w].pc = "handler",
                                        ![w].cur = <<item>>]
          /\ hist' = [hist EXCEPT ![item.n].calls = @ + 1,
                                  ![item.n].by = workers[w].lane,
                                  ![item.n].got = item.payload,
                                  ![item.n].h = item.closure.cb]
    /\ UNCHANGED <<disk, now, nextN, waqOn, active, running, phase, crashes,
                   wlog, spawnVars, hostVars>>

\* loop test false: `finally: self._active.discard(lane_id)`, task ends
WorkerExit(w) ==
    /\ w \in DOMAIN workers
    /\ running = w
    /\ workers[w].pc = "loop"
    /\ ~LoopCond(queues[workers[w].lane])
    /\ active' = active \ {workers[w].lane}
    /\ workers' = [workers EXCEPT ![w].pc = "exited"]
    /\ running' = 0
    /\ UNCHANGED <<disk, now, nextN, waqOn, queues, phase, crashes, hist,
                   wlog, spawnVars, hostVars>>

\* the user callback blocks in an await: the loop is free for other tasks
HandlerSuspend(w) ==
    /\ w \in DOMAIN workers
    /\ running = w
    /\ workers[w].pc = "handler"
    /\ workers' = [workers EXCEPT ![w].pc = "suspended"]
    /\ running' = 0
    /\ UNCHANGED <<disk, now, nextN, waqOn, queues, active, phase, crashes,
                   hist, wlog, spawnVars, hostVars>>

\* The user callback ends with `outcome` ("returned" or "raised"), at once
\* or after a suspension; the closure's own code and the worker's
\* try/except/finally run in the same step.
HandlerEnd(w, outcome) ==
    /\ w \in DOMAIN workers
    /\ \/ running = w /\ workers[w].pc = "handler"
       \/ running = 0 /\ workers[w].pc = "suspended"
    /\ LET item == workers[w].cur[1]
       IN /\ disk' = DiskAfterCallback(disk, item.closure, outcome, waqOn)
          /\ hist' = [hist EXCEPT ![item.n].fin = outcome]
    /\ IF WorkerCatches(outcome)
       THEN /\ workers' = [workers EXCEPT ![w].pc = "loop", ![w].cur = <<>>]
            /\ running' = w
            /\ active' = active
       ELSE /\ workers' = [workers EXCEPT ![w].pc = "failed", ![w].cur = <<>>]
            /\ running' = 0
            /\ active' = active \ {workers[w].lane}
    /\ UNCHANGED <<now, nextN, waqOn, queues, phase, crashes, wlog, spawnVars, hostVars>>

HandlerReturn(w) == HandlerEnd(w, "returned")

HandlerRaise(w) == HandlerEnd(w, "raised")

(***************************************************************************)
(* The process dies: memory is lost, the directory stays.  A new LaneQueue *)
(* is constructed on the same directory.                                   *)
(***************************************************************************)
Crash ==
    /\ crashes < MaxCrashes
    /\ phase = "run"
    /\ crashes' = crashes + 1
    /\ queues' = <<>>
    /\ active' = {}
    /\ workers' = <<>>
    /\ running' = 0
    /\ phase' = "boot"
    /\ hist' = [n \in DOMAIN hist |->
                  [hist[n] EXCEPT !.via = "none", !.calls = 0, !.fin = "no",
                                  !.by = "", !.got = PyStr(""),
                                  !.h = <<"cb", "">>]]
    /\ UNCHANGED <<disk, now, nextN, waqOn, wlog, spawnVars, hostVars>>

(***************************************************************************)
(* WAQStorage used on its own: write and complete called in any order.     *)
(* wlog keeps, per id write() returned, what was written and whether       *)
(* complete() was called for it afterwards.                                *)
(***************************************************************************)
InitStore ==
    /\ disk = {}
    /\ now = 1
    /\ nextN = 1
    /\ wlog = {}
    /\ waqOn = TRUE
    /\ queues = <<>>
    /\ active = {}
    /\ workers = <<>>
    /\ running = 0
    /\ phase = "boot"
    /\ crashes = 0
    /\ hist = <<>>
    /\ SpawnIdle
    /\ RouterIdle
    /\ PluginIdle
    /\ AssistantIdle

\* WAQStorage.write(lane_id, payload); the id is returned in every case
StoreWrite(lane_id, payload) ==
    /\ nextN <= MaxStoreWrites
    /\ LET waq_id == MakeWaqId(lane_id, now, nextN)
       IN /\ disk' = WriteFile(disk, waq_id, lane_id, payload, now)
          /\ wlog' = wlog \cup {[waq_id |-> waq_id, lane_id |-> lane_id,
                                 payload |-> payload, done |-> FALSE]}
    /\ now' = now + 1
    /\ nextN' = nextN + 1
    /\ UNCHANGED <<waqOn, queues, active, workers, running, phase, crashes,
                   hist, spawnVars, hostVars>>

\* an id no write() returned
StrayWaqId == MakeWaqId("x", 0, 0)

\* WAQStorage.complete(waq_id)
StoreComplete(waq_id) ==
    /\ disk' = Complete(disk, waq_id)
    /\ wlog' = {IF r.waq_id = waq_id THEN [r EXCEPT !.done = TRUE] ELSE r :
                r \in wlog}
    /\ UNCHANGED <<now, nextN, waqOn, queues, active, workers, running,
                   phase, crashes, hist, spawnVars, hostVars>>

NextStore ==
    \/ \E l \in Lanes, p \in Payloads : StoreWrite(l, p)
    \/ \E id \in {r.waq_id : r \in wlog} \cup {StrayWaqId} : StoreComplete(id)


(***************************************************************************)
(* AgentSpawner.register_role and AgentSpawner.spawn.  spawn contains no   *)
(* await; it is cut at its calls of the language model.                    *)
(***************************************************************************)
laneState == <<disk, now, nextN, waqOn, queues, active, workers, running,
               phase, crashes, hist, wlog>>

\* an AgentSpawner just constructed; the lane queue is not used
InitSpawn == InitStore

\* register_role(config): self._custom_roles[config.role] = config
RegisterRole(config) ==
    /\ spPc = "idle"
    /\ Cardinality(DOMAIN customRoles) < MaxRegistered
    /\ customRoles' = [r \in DOMAIN customRoles \cup {config.role} |->
                          IF r = config.role THEN config ELSE customRoles[r]]
    /\ UNCHANGED <<spPc, spConfig, messages, response, rounds, result,
                   execLog, toolLog, chatLog, laneState, hostVars>>

\* spawn(role, mission) up to the first self._llm.chat, whose answer is resp
SpawnStart(role, resp) ==
    /\ spPc = "idle"
    /\ LET found == LookupRole(customRoles, role)
       IN IF found = <<>>
          THEN /\ spPc' = "done"
               /\ result' = <<[header |-> "",
                                body |-> Text("Error: rol de sub-agente no existe.",
                                              role)]>>
               /\ UNCHANGED <<spConfig, messages, response, chatLog>>
          ELSE LET config == found[1]
                   tools == FilterTools(RegisteredTools,
                                        config.tools_whitelist)
                   msgs == <<Turn("system", Text(config.system_prompt, ""), ""),
                             Turn("user", Text("mision", ""), "")>>
               IN /\ spConfig' = found
                  /\ messages' = msgs
                  /\ chatLog' = <<[messages |-> msgs, tools |-> tools]>>
                  /\ response' = resp
                  /\ spPc' = "loop"
                  /\ UNCHANGED result
    /\ UNCHANGED <<customRoles, rounds, execLog, toolLog, laneState, hostVars>>

\* one pass of the while loop: the tool calls of `response` are handled,
\* the turns appended, and self._llm.chat(messages) answers resp
SpawnRound(resp) ==
    /\ spPc = "loop"
    /\ SpawnLoopCond(response, rounds)
    /\ LET wl == spConfig[1].tools_whitelist
           calls == response.tool_calls
           tool_results == ToolResults(calls, wl, SpawnerRegistry)
           msgs == Append(messages, response) \o tool_results
           raising == RaisingCalls(calls, wl)
       IN /\ rounds' = rounds + 1
          /\ IF raising = {}
             THEN /\ execLog' = execLog \o ExecutedNames(calls, wl)
                  /\ toolLog' = toolLog \o
                         [i \in DOMAIN calls |->
                             [round |-> rounds + 1, id |-> calls[i].id,
                              name |-> calls[i].name,
                              content |-> tool_results[i].content]]
                  /\ messages' = msgs
                  /\ chatLog' = Append(chatLog,
                                       [messages |-> msgs, tools |-> {}])
                  /\ response' = resp
                  /\ UNCHANGED spPc
             ELSE \* the TypeError leaves spawn at the first such call
                  LET k == CHOOSE i \in raising : \A j \in raising : i <= j
                  IN /\ execLog' = execLog \o
                            ExecutedNames(SubSeq(calls, 1, k - 1), wl)
                     /\ spPc' = "raised"
                     /\ UNCHANGED <<toolLog, messages, chatLog, response>>
    /\ UNCHANGED <<customRoles, spConfig, result, laneState, hostVars>>

\* the loop test is false: spawn returns the labelled block
SpawnReturn ==
    /\ spPc = "loop"
    /\ ~SpawnLoopCond(response, rounds)
    /\ result' = <<[header |-> spConfig[1].name,
                     body |-> Format(GetContent(response))]>>
    /\ spPc' = "done"
    /\ UNCHANGED <<customRoles, spConfig, messages, response, rounds,
                   execLog, toolLog, chatLog, laneState, hostVars>>

NextSpawn ==
    \/ \E c \in CustomConfigs : RegisterRole(c)
    \/ \E r \in RoleArgs, resp \in Responses : SpawnStart(r, resp)
    \/ \E resp \in Responses : SpawnRound(resp)
    \/ SpawnReturn

(***************************************************************************)
(* MCPRouter.  register() returns a decorator and changes nothing; the     *)
(* tool is put in self._tools when the decorator is applied to a function. *)
(***************************************************************************)
spawnerState == <<laneState, spawnVars, pluginVars, assistantVars>>

\* an MCPRouter just constructed
InitRouter == InitStore

\* register(name, description, parameters)
Register(name, description, parameters) ==
    /\ decorators' = decorators \cup {Decorator(name, description, parameters)}
    /\ UNCHANGED <<mcpTools, mcpLatest, mcpLast, spawnerState>>

\* decorator(func), for a decorator register() has returned
Decorate(dec, func) ==
    /\ dec \in decorators
    /\ LET entry == ToolEntry(dec.name, func, dec.description, dec.parameters)
       IN /\ mcpTools' = DictSet(mcpTools, entry)
          /\ mcpLatest' =
                 [n \in DOMAIN mcpLatest \cup {dec.name} |->
                     IF n = dec.name
                     THEN [entry |-> entry,
                           replaced |-> dec.name \in DOMAIN mcpLatest]
                     ELSE mcpLatest[n]]
    /\ mcpLast' = NoExecute
    /\ UNCHANGED <<decorators, spawnerState>>

\* execute(tool_name, **args)
RouterExecute(tool_name, args) ==
    /\ mcpLast' = [op |-> "execute", tool_name |-> tool_name, args |-> args,
                   before |-> mcpTools,
                   raised |-> ~Binds(args),
                   value |-> IF Binds(args)
                             THEN McpExecute(mcpTools, tool_name)
                             ELSE Text("TypeError", "")]
    /\ UNCHANGED <<mcpTools, decorators, mcpLatest, spawnerState>>

NextRouter ==
    \/ \E n \in ToolNames, d \in Descriptions, ps \in ParameterSchemas :
           Register(n, d, ps)
    \/ \E dec \in decorators, f \in Functions : Decorate(dec, f)
    \/ \E n \in ExecuteNames, a \in ArgDicts : RouterExecute(n, a)

(***************************************************************************)
(* PluginManager.  Its methods are synchronous and are called by one       *)
(* caller, one at a time; run() waits in join() for the thread it started  *)
(* or for the timeout.  The files of the plugin directory are edited from  *)
(* outside at any time.                                                    *)
(***************************************************************************)
managerState == <<laneState, spawnVars, routerVars, assistantVars>>

\* a directory of plugin files, no PluginManager constructed on it yet
InitPlugin ==
    /\ disk = {}
    /\ now = 1
    /\ nextN = 1
    /\ wlog = {}
    /\ waqOn = TRUE
    /\ queues = <<>>
    /\ active = {}
    /\ workers = <<>>
    /\ running = 0
    /\ phase = "boot"
    /\ crashes = 0
    /\ hist = <<>>
    /\ SpawnIdle
    /\ RouterIdle
    /\ AssistantIdle
    /\ pmPc = "new"
    /\ files \in InitDirs
    /\ pycache = [s \in Stems |-> <<>>]
    /\ plugins = <<>>
    /\ manifests = <<>>
    /\ manifestFiles = <<>>
    /\ runCall = <<>>
    /\ installCall = <<>>
    /\ threads = <<>>
    /\ lastRun = NoRun
    /\ runs = 0
    /\ edits = 0
    /\ pmLast = NoOp
    /\ pmTools = <<>>
    /\ pluginKeys = <<>>

\* PluginManager(plugins_dir): __init__ ends with _auto_discover()
Construct ==
    /\ pmPc = "new"
    /\ pmPc' = "ready"
    /\ LET st == AutoDiscover(PmState(TRUE, plugins, manifests,
                                      manifestFiles, pycache, pmTools,
                                       pluginKeys),
                              files)
       IN /\ plugins' = st.plugins
          /\ manifests' = st.manifests
          /\ manifestFiles' = st.manifestFiles
          /\ pycache' = st.pycache
          /\ pmTools' = st.tools
          /\ pluginKeys' = st.keys
    /\ pmLast' = [op |-> "discover"]
    /\ UNCHANGED <<files, runCall, threads, lastRun, runs, edits,
                   managerState,
                   installCall>>

\* the file of a plugin is written from outside (an editor, a deployment),
\* in the second of the file's last write or in a later one
EditFile(stem, src, same_second) ==
    /\ pmPc = "ready"
    /\ edits < MaxEdits
    /\ edits' = edits + 1
    /\ files' = [files EXCEPT ![stem] =
                    IF files[stem] = <<>> THEN <<File(src, 0)>>
                    ELSE IF same_second
                    THEN <<File(src, files[stem][1].mtime)>>
                    ELSE <<File(src, files[stem][1].mtime + 1)>>]
    /\ pmLast' = NoOp
    /\ UNCHANGED <<pmTools, pluginKeys, pmPc, pycache, plugins, manifests,
                   manifestFiles,
                   runCall, threads, lastRun, runs, managerState,
                   installCall>>

\* the file an install_from_github() is about to write is written from
\* outside while the call waits for its download
WriteDuringDownload(src, same_second) ==
    /\ installCall # <<>>
    /\ EditFile(installCall[1].stem, src, same_second)

\* reload(plugin_name)
Reload(plugin_name) ==
    /\ pmPc = "ready"
    /\ runCall = <<>>
    /\ installCall = <<>>
    /\ IF plugin_name \notin DOMAIN plugins
       THEN /\ pmLast' = [op |-> "reload", name |-> plugin_name,
                          found |-> FALSE, ok |-> FALSE]
            /\ UNCHANGED <<plugins, manifests, manifestFiles, pycache,
                           pmTools, pluginKeys>>
       ELSE LET stem == plugins[plugin_name].file
                st == LoadFile(PmState(TRUE, plugins, manifests,
                                       manifestFiles, pycache, pmTools,
                                       pluginKeys),
                               files, stem, manifests[plugin_name].source)
            IN /\ pmTools' = st.tools
               /\ pluginKeys' = st.keys
               /\ plugins' = st.plugins
               /\ manifests' = st.manifests
               /\ manifestFiles' = st.manifestFiles
               /\ pycache' = st.pycache
               /\ pmLast' = [op |-> "reload", name |-> plugin_name,
                             found |-> TRUE, ok |-> st.ok,
                             old |-> plugins[plugin_name].code]
    /\ lastRun' = NoRun
    /\ UNCHANGED <<pmPc, files, runCall, threads, runs, edits, managerState,
                   installCall>>

\* reload_all(): every loaded plugin is reloaded, then _auto_discover()
ReloadAll ==
    /\ pmPc = "ready"
    /\ runCall = <<>>
    /\ installCall = <<>>
    /\ LET st == AutoDiscover(
                     ReloadEach(PmState(TRUE, plugins, manifests,
                                        manifestFiles, pycache, pmTools,
                                        pluginKeys),
                                files, pluginKeys),
                     files)
       IN /\ plugins' = st.plugins
          /\ manifests' = st.manifests
          /\ manifestFiles' = st.manifestFiles
          /\ pycache' = st.pycache
          /\ pmTools' = st.tools
          /\ pluginKeys' = st.keys
    /\ pmLast' = [op |-> "reload_all"]
    /\ lastRun' = NoRun
    /\ UNCHANGED <<pmPc, files, runCall, threads, runs, edits, managerState,
                   installCall>>

\* disable(plugin_name): the module is taken out of the table, its manifest
\* gets enabled = False and is saved
Disable(plugin_name) ==
    /\ pmPc = "ready"
    /\ runCall = <<>>
    /\ installCall = <<>>
    /\ IF plugin_name \in DOMAIN plugins
       THEN LET manifest == [manifests[plugin_name] EXCEPT !.enabled = FALSE]
            IN /\ plugins' = DictDel(plugins, plugin_name)
               /\ pluginKeys' = KeysDel(pluginKeys, plugin_name)
               /\ manifests' = DictPut(manifests, plugin_name, manifest)
               /\ manifestFiles' = DictPut(manifestFiles, plugin_name,
                                           manifest)
               /\ pmLast' = [op |-> "disable", name |-> plugin_name,
                             value |-> TRUE]
       ELSE /\ pmLast' = [op |-> "disable", name |-> plugin_name,
                          value |-> FALSE]
            /\ UNCHANGED <<plugins, pluginKeys, manifests, manifestFiles>>
    /\ lastRun' = NoRun
    /\ UNCHANGED <<pmPc, files, pycache, pmTools, runCall, threads, runs,
                   edits, managerState,
                   installCall>>

\* install_from_github(url) up to urllib.request.urlopen: the checks of the
\* url and of dest_path.exists(), each returning at once when it fails
InstallFromGithub(url) ==
    /\ pmPc = "ready"
    /\ runCall = <<>>
    /\ installCall = <<>>
    /\ LET Rejected(kind) ==
               /\ pmLast' = [op |-> "install", value |-> Text(kind, "")]
               /\ installCall' = <<>>
       IN IF ~url.ends_py
          THEN Rejected("La URL debe apuntar a un archivo .py.")
          ELSE IF ~url.name_ok
          THEN Rejected("Nombre de archivo no valido")
          ELSE IF files[url.stem] # <<>>
          THEN Rejected("El plugin ya existe.")
          ELSE /\ pmLast' = NoOp
               /\ installCall' = <<url>>
    /\ lastRun' = NoRun
    /\ UNCHANGED <<pmPc, files, plugins, manifests, manifestFiles, pycache,
                   pmTools, pluginKeys, runCall, threads, runs, edits,
                   managerState>>

\* install_from_github from the return of urlopen on, the download giving
\* `fetched`: the text is tested, written to dest_path (over whatever was
\* put there meanwhile, in the second of that write or in a later one) and
\* loaded
InstallDownloaded(fetched, same_second) ==
    /\ pmPc = "ready"
    /\ installCall # <<>>
    /\ installCall' = <<>>
    /\ LET url == installCall[1]
           Returns(kind) ==
               pmLast' = [op |-> "install", value |-> Text(kind, "")]
           Rejected(kind) ==
               /\ Returns(kind)
               /\ UNCHANGED <<files, plugins, manifests, manifestFiles,
                              pycache, pmTools, pluginKeys>>
       IN IF fetched = <<>>
          THEN Rejected("Error al descargar el plugin")
          ELSE IF ~TextuallyValid(fetched[1])
          THEN Rejected("El archivo descargado no parece ser un plugin valido")
          ELSE LET mtime == IF files[url.stem] = <<>> THEN 0
                            ELSE IF same_second
                            THEN files[url.stem][1].mtime
                            ELSE files[url.stem][1].mtime + 1
                   fs == [files EXCEPT
                             ![url.stem] = <<File(fetched[1], mtime)>>]
                   st == LoadFile(PmState(TRUE, plugins, manifests,
                                          manifestFiles, pycache, pmTools,
                                          pluginKeys),
                                  fs, url.stem, "raw_url")
               IN /\ files' = fs
                  /\ pmTools' = st.tools
                  /\ pluginKeys' = st.keys
                  /\ plugins' = st.plugins
                  /\ manifests' = st.manifests
                  /\ manifestFiles' = st.manifestFiles
                  /\ pycache' = st.pycache
                  /\ IF st.ok
                     THEN Returns("Plugin instalado y cargado exitosamente.")
                     ELSE Returns("Plugin descargado pero no pudo cargarse.")
    /\ UNCHANGED <<pmPc, runCall, threads, lastRun, runs, edits,
                   managerState>>

\* run(plugin_name) up to thread.join: an unknown name returns at once
RunStart(plugin_name) ==
    /\ pmPc = "ready"
    /\ runCall = <<>>
    /\ installCall = <<>>
    /\ runs < MaxRuns
    /\ runs' = runs + 1
    /\ IF plugin_name \notin DOMAIN plugins
       THEN /\ lastRun' = [n |-> runs + 1, name |-> plugin_name,
                           state |-> "none",
                           value |-> Text("Plugin no disponible.",
                                          plugin_name),
                           prev |-> <<lastRun.name, lastRun.state>>]
            /\ UNCHANGED <<runCall, threads>>
       ELSE /\ threads' = DictPut(threads, runs + 1,
                                  Thread(plugin_name,
                                         plugins[plugin_name].code,
                                         "running"))
            /\ runCall' = <<[n |-> runs + 1, pc |-> "joining"]>>
            /\ UNCHANGED lastRun
    /\ pmLast' = NoOp
    /\ UNCHANGED <<pmTools, pluginKeys, pmPc, files, pycache, plugins,
                   manifests, manifestFiles,
                   edits, managerState,
                   installCall>>

\* module.execute(**kwargs) returns or raises in the thread of call n,
\* whether run() still waits for it or not
ThreadEnd(n, outcome) ==
    /\ n \in DOMAIN threads
    /\ threads[n].state = "running"
    /\ threads' = [threads EXCEPT ![n].state = outcome]
    /\ UNCHANGED <<pmTools, pluginKeys, pmPc, files, pycache, plugins,
                   manifests, manifestFiles,
                   runCall, lastRun, runs, edits, pmLast, managerState,
                   installCall>>

ThreadReturns(n) == ThreadEnd(n, "returned")
ThreadRaises(n) == ThreadEnd(n, "raised")

\* thread.join(timeout) returns: the thread has ended, or the timeout has
\* passed with the thread alive
JoinEnds(timed_out) ==
    /\ runCall # <<>>
    /\ runCall[1].pc = "joining"
    /\ timed_out = (threads[runCall[1].n].state = "running")
    /\ runCall' = <<[runCall[1] EXCEPT !.pc = "joined"]>>
    /\ UNCHANGED <<pmTools, pluginKeys, pmPc, files, pycache, plugins,
                   manifests, manifestFiles,
                   threads, lastRun, runs, edits, pmLast, managerState,
                   installCall>>

JoinThreadDone == JoinEnds(FALSE)
JoinTimeout == JoinEnds(TRUE)

\* the rest of run(): thread.is_alive(), the containers, the return.  The
\* thread object of a call that has returned is kept only while it runs
RunReturn ==
    /\ runCall # <<>>
    /\ runCall[1].pc = "joined"
    /\ LET n == runCall[1].n
           thread == threads[n]
           container == Containers(threads, n)
       IN /\ lastRun' = [n |-> n, name |-> thread.name,
                         state |-> thread.state,
                         value |-> RunValue(thread, container),
                         prev |-> <<lastRun.name, lastRun.state>>]
          /\ threads' = IF thread.state = "running" THEN threads
                        ELSE [k \in DOMAIN threads \ {n} |-> threads[k]]
    /\ runCall' = <<>>
    /\ UNCHANGED <<pmTools, pluginKeys, pmPc, files, pycache, plugins,
                   manifests, manifestFiles,
                   runs, edits, pmLast, managerState,
                   installCall>>

\* the manager's calls and the edits of the files; every execute ends
\* before the timeout of run()
NextPlugin ==
    \/ Construct
    \/ \E stem \in EditedStems, src \in EditSources, same_second \in BOOLEAN :
           EditFile(stem, src, same_second)
    \/ \E name \in PluginNames : Reload(name)
    \/ \E src \in EditSources, same_second \in BOOLEAN :
           WriteDuringDownload(src, same_second)
    \/ \E url \in InstallUrls : InstallFromGithub(url)
    \/ \E fetched \in Downloads, same_second \in BOOLEAN :
           InstallDownloaded(fetched, same_second)
    \/ \E name \in PluginNames : RunStart(name)
    \/ \E n \in DOMAIN threads : ThreadReturns(n)
    \/ \E n \in DOMAIN threads : ThreadRaises(n)
    \/ JoinThreadDone
    \/ RunReturn

\* the calls of run() on a manager whose plugins do not change; execute may
\* take longer than the timeout, or never end
NextRun ==
    \/ Construct
    \/ \E name \in PluginNames : RunStart(name)
    \/ \E n \in DOMAIN threads : ThreadReturns(n)
    \/ \E n \in DOMAIN threads : ThreadRaises(n)
    \/ JoinThreadDone
    \/ JoinTimeout
    \/ RunReturn

\* the calls of run, reload, reload_all and disable on the files as they
\* are; every execute ends before the timeout of run()
NextDisable ==
    \/ Construct
    \/ \E name \in PluginNames : Reload(name)
    \/ ReloadAll
    \/ \E name \in PluginNames : Disable(name)
    \/ \E name \in PluginNames : RunStart(name)
    \/ \E n \in DOMAIN threads : ThreadReturns(n)
    \/ \E n \in DOMAIN threads : ThreadRaises(n)
    \/ JoinThreadDone
    \/ RunReturn

(***************************************************************************)
(* Assistant.process and Assistant._handle_tool_calls, cut at their calls  *)
(* of the language model; the registry holds fewer tools than MAX_TOOLS,   *)
(* so every schema is given to the first call.                             *)
(***************************************************************************)
assistantState == <<laneState, spawnVars, routerVars, pluginVars>>

InitAssistant == InitStore

\* process(user_message) up to the first self.llm.chat, whose answer is resp
ProcessStart(resp) ==
    /\ asPc = "idle"
    /\ asMessages' = <<Turn("system", Text("system_prompt", ""), ""),
                       Turn("user", Text("mision", ""), "")>>
    /\ asChats' = 1
    /\ asResponse' = resp
    /\ asPc' = "called"
    /\ UNCHANGED <<asExecLog, asResult, assistantState>>

\* _handle_tool_calls(response, messages): every call is executed, the
\* turns are appended and self.llm.chat(messages) answers resp
HandleToolCalls(resp) ==
    /\ asPc = "called"
    /\ AssistantHandlesTools(asResponse)
    /\ LET calls == asResponse.tool_calls
           tool_results == ToolResults(calls, WlNone, SpawnerRegistry)
           raising == RaisingCalls(calls, WlNone)
       IN IF raising = {}
          THEN /\ asExecLog' = asExecLog \o ExecutedNames(calls, WlNone)
               /\ asMessages' = Append(asMessages, asResponse) \o tool_results
               /\ asChats' = asChats + 1
               /\ asResponse' = resp
               /\ asPc' = "final"
          ELSE LET k == CHOOSE i \in raising : \A j \in raising : i <= j
               IN /\ asExecLog' = asExecLog \o
                         ExecutedNames(SubSeq(calls, 1, k - 1), WlNone)
                  /\ asPc' = "raised"
                  /\ UNCHANGED <<asMessages, asChats, asResponse>>
    /\ UNCHANGED <<asResult, assistantState>>

\* the rest of process: the content of the last response is returned
ProcessReturn ==
    /\ \/ asPc = "final"
       \/ asPc = "called" /\ ~AssistantHandlesTools(asResponse)
    /\ asResult' = <<AssistantContent(asResponse)>>
    /\ asPc' = "done"
    /\ UNCHANGED <<asMessages, asResponse, asChats, asExecLog,
                   assistantState>>

\* one spawn with an unrestricted role and one process, given responses of
\* the same set
NextAssistant ==
    \/ RegisterRole(UnrestrictedRole)
    \/ \E resp \in CompareResponses : SpawnStart("test_rol", resp)
    \/ \E resp \in CompareResponses : SpawnRound(resp)
    \/ SpawnReturn
    \/ \E resp \in CompareResponses : ProcessStart(resp)
    \/ \E resp \in CompareResponses : HandleToolCalls(resp)
    \/ ProcessReturn

(***************************************************************************)
(* Specifications.                                                         *)
(***************************************************************************)
vars == <<disk, now, nextN, waqOn, queues, active, workers, running, phase,
          crashes, hist, wlog, spawnVars, hostVars>>

\* one process, no crash
NextLane ==
    \/ \E l \in Lanes, p \in LanePayloads : Enqueue(l, p, CallbackFactory(l))
    \/ RecoverOrphans
    \/ \E w \in DOMAIN workers : WorkerStart(w)
    \/ \E w \in DOMAIN workers : WorkerPop(w)
    \/ \E w \in DOMAIN workers : WorkerExit(w)
    \/ \E w \in DOMAIN workers : HandlerSuspend(w)
    \/ \E w \in DOMAIN workers : HandlerReturn(w)
    \/ \E w \in DOMAIN workers : HandlerRaise(w)

SpecLane == InitLane /\ [][NextLane]_vars

\* the process may die and be restarted on the same directory
NextCrash == NextLane \/ Crash

SpecCrash == InitLane /\ [][NextCrash]_vars

SpecStore == InitStore /\ [][NextStore]_vars

SpecSpawn == InitSpawn /\ [][NextSpawn]_vars

SpecRouter == InitRouter /\ [][NextRouter]_vars

SpecAssistant == InitAssistant /\ [][NextAssistant]_vars

SpecPlugin == InitPlugin /\ [][NextPlugin]_vars

SpecRun == InitPlugin /\ [][NextRun]_vars

SpecDisable == InitPlugin /\ [][NextDisable]_vars

\* thread.join(timeout) returns when the thread has ended or, at the latest,
\* when the timeout has passed, and run() then goes on to its return; no
\* thread is required to end
SpecRunLive ==
    /\ SpecRun
    /\ WF_vars(JoinThreadDone \/ JoinTimeout)
    /\ WF_vars(RunReturn)

(***************************************************************************)
(* Fairness.  The event loop runs every ready task: a created worker gets  *)
(* its first step, a worker holding the loop goes on to its next           *)
(* suspension point, and a callback that holds the loop either suspends    *)
(* or ends.  Whether a suspended callback is ever resumed is a property of *)
(* the callback, assumed per lane.                                         *)
(***************************************************************************)
WorkerIds == 1..MaxEnqueues

HandlerYields(w) ==
    /\ w \in DOMAIN workers
    /\ workers[w].pc = "handler"
    /\ (HandlerSuspend(w) \/ HandlerReturn(w) \/ HandlerRaise(w))

\* a suspended callback of this lane is resumed and ends
HandlerResumes(w, lane_id) ==
    /\ w \in DOMAIN workers
    /\ workers[w].pc = "suspended"
    /\ workers[w].lane = lane_id
    /\ (HandlerReturn(w) \/ HandlerRaise(w))

LoopFairness ==
    \A w \in WorkerIds :
        /\ WF_vars(WorkerStart(w))
        /\ WF_vars(WorkerPop(w))
        /\ WF_vars(WorkerExit(w))
        /\ WF_vars(HandlerYields(w))

HandlersEnd(lanes) ==
    \A w \in WorkerIds : \A l \in lanes : WF_vars(HandlerResumes(w, l))

\* no crash, every handler eventually returns or raises
\* liveness is checked with text payloads only
NextLive ==
    \/ \E l \in Lanes : Enqueue(l, PyStr("a"), CallbackFactory(l))
    \/ RecoverOrphans
    \/ \E w \in DOMAIN workers : WorkerStart(w)
    \/ \E w \in DOMAIN workers : WorkerPop(w)
    \/ \E w \in DOMAIN workers : WorkerExit(w)
    \/ \E w \in DOMAIN workers : HandlerSuspend(w)
    \/ \E w \in DOMAIN workers : HandlerReturn(w)
    \/ \E w \in DOMAIN workers : HandlerRaise(w)

\* no crash; lane "x" is given text and payloads whose record cannot be
\* written
NextTransient ==
    \/ \E p \in UnwritablePayloads \cup {PyStr("a")} :
           Enqueue("x", p, CallbackFactory("x"))
    \/ RecoverOrphans
    \/ \E w \in DOMAIN workers : WorkerStart(w)
    \/ \E w \in DOMAIN workers : WorkerPop(w)
    \/ \E w \in DOMAIN workers : WorkerExit(w)
    \/ \E w \in DOMAIN workers : HandlerSuspend(w)
    \/ \E w \in DOMAIN workers : HandlerReturn(w)
    \/ \E w \in DOMAIN workers : HandlerRaise(w)

SpecTransient == InitLane /\ [][NextTransient]_vars

SpecLive == InitLane /\ [][NextLive]_vars /\ LoopFairness /\ HandlersEnd(Lanes)

\* no crash, only the handlers of lane "y" are known to end
SpecIndep ==
    InitLane /\ [][NextLive]_vars /\ LoopFairness /\ HandlersEnd({"y"})


(***************************************************************************)
(* Vocabulary of the properties.                                           *)
(***************************************************************************)
\* worker tasks of a lane that exist and have not ended
LiveWorkers(lane_id) ==
    {w \in DOMAIN workers : /\ workers[w].lane = lane_id
                            /\ workers[w].pc \notin {"exited", "failed"}}

\* submissions of this process that went through enqueue / recover_orphans
Enqueued == {n \in DOMAIN hist : hist[n].via = "enqueue"}
Recovered == {n \in DOMAIN hist : hist[n].via = "recovered"}

HandlerStarted(n) == hist[n].calls > 0
HandlerEnded(n) == hist[n].fin # "no"
HandlerInProgress(n) == HandlerStarted(n) /\ ~HandlerEnded(n)

OnDisk(waq_id) == waq_id \in FileNames(disk)

(***************************************************************************)
(* C1.  FIFO within a lane: of two items enqueued on the same lane, the    *)
(* handler of the later one is not invoked before the handler of the       *)
(* earlier one has fully returned.                                         *)
(***************************************************************************)
FifoWithinLane ==
    \A a \in Enqueued, b \in Enqueued :
        (a < b /\ hist[a].lane = hist[b].lane /\ HandlerStarted(b))
            => HandlerEnded(a)

(***************************************************************************)
(* C2.  At most one worker per lane: for each lane at most one _worker     *)
(* task exists that has not yet exited.                                    *)
(***************************************************************************)
AtMostOneWorkerPerLane ==
    \A l \in Lanes : Cardinality(LiveWorkers(l)) <= 1

(***************************************************************************)
(* C3.  Write-ahead invariant: an item submitted through enqueue whose     *)
(* record was written keeps that record on disk from the moment it is on   *)
(* the lane queue until its handler has fully returned.                    *)
(***************************************************************************)
WriteAheadRecordKept ==
    \A n \in Enqueued :
        (hist[n].persisted /\ ~HandlerEnded(n))
            => Persisted(disk, hist[n].waq_id)

\* an item still waits (record on disk) behind an item of the same lane that
\* was handled and whose record was removed
WriteAheadWitness ==
    \E a \in Enqueued, b \in Enqueued :
        /\ a # b /\ hist[a].lane = hist[b].lane
        /\ hist[a].persisted /\ HandlerEnded(a) /\ ~OnDisk(hist[a].waq_id)
        /\ hist[b].persisted /\ ~HandlerEnded(b) /\ OnDisk(hist[b].waq_id)

(***************************************************************************)
(* C6.  Handler failure on the enqueue path: when the handler of an        *)
(* enqueued item raises, (a) its record is removed, (b) the exception does *)
(* not end the worker, and (c) no item stays queued on a lane without a    *)
(* worker that will pop it.                                                *)
(***************************************************************************)
HandlerFailureContained ==
    /\ \A n \in Enqueued : hist[n].fin = "raised" => ~OnDisk(hist[n].waq_id)
    /\ \A w \in DOMAIN workers : workers[w].pc # "failed"
    /\ \A l \in DOMAIN queues : queues[l] # <<>> => LiveWorkers(l) # {}

\* a handler raised, its record had been written, and the item queued
\* behind it has been given to its handler
HandlerFailureWitness ==
    \E a \in Enqueued, b \in Enqueued :
        /\ a < b /\ hist[a].lane = hist[b].lane
        /\ hist[a].persisted /\ hist[a].fin = "raised"
        /\ HandlerStarted(b)


(***************************************************************************)
(* C4.  Durability round trip of the store.  What a fresh store's          *)
(* load_orphans() returns is LoadOrphans(disk).                            *)
(***************************************************************************)
LoadedFor(waq_id) ==
    {LoadOrphans(disk)[i] : i \in {k \in DOMAIN LoadOrphans(disk) :
                                       LoadOrphans(disk)[k].waq_id = waq_id}}

\* C4 as stated: every id write() returned and that was not completed is
\* loaded back with the same lane and the same payload; once completed it
\* is not loaded.
StoreRoundTripAsStated ==
    \A r \in wlog :
        IF r.done THEN LoadedFor(r.waq_id) = {}
        ELSE \E o \in LoadedFor(r.waq_id) :
                 o.lane_id = r.lane_id /\ o.payload = r.payload

\* json.dumps accepts the payload and utf-8 can encode the text
Writable(payload) == JsonEncodable(payload) /\ Utf8Encodable(ToJson(payload))

\* C4 as amended: the round trip holds for every payload that json.dumps
\* and utf-8 can write; the payload comes back equal when it is a str (a
\* tuple comes back as a list), and a payload that cannot be written
\* leaves no loadable record.  Completed records are never loaded.
StoreRoundTrip ==
    \A r \in wlog :
        IF r.done THEN LoadedFor(r.waq_id) = {}
        ELSE IF Writable(r.payload)
             THEN \E o \in LoadedFor(r.waq_id) :
                      /\ o.lane_id = r.lane_id
                      /\ (r.payload.ty = "str" => o.payload = r.payload)
                      /\ (r.payload.ty = "tuple"
                              => o.payload = PyList(r.payload.v))
             ELSE LoadedFor(r.waq_id) = {}

\* a text record is loaded back while another record of the same lane has
\* been completed
StoreRoundTripWitness ==
    \E r \in wlog, q \in wlog :
        /\ r.lane_id = q.lane_id
        /\ q.done /\ Writable(q.payload)
        /\ ~r.done /\ r.payload = PyStr("a")
        /\ \E o \in LoadedFor(r.waq_id) : o.payload = r.payload

(***************************************************************************)
(* C5.  Crash recovery is at-least-once and order preserving: after a      *)
(* restart every readable record left on disk is given to the handler of   *)
(* its original lane with the payload that was written, and of two         *)
(* recovered records of one lane the handler of the later-written one      *)
(* does not start before the handler of the earlier one has completed.     *)
(***************************************************************************)
RecoveryOrdered ==
    /\ \A n \in Recovered :
           HandlerStarted(n) => /\ hist[n].by = hist[n].lane
                                /\ hist[n].h = CallbackFactory(hist[n].lane)
                                /\ hist[n].got = hist[n].payload
    /\ (phase = "run" /\ waqOn) =>
           \A f \in disk : f.text # <<>> => hist[f.name.uuid].via # "none"
    /\ \A a \in Recovered, b \in Recovered :
           (a < b /\ hist[a].lane = hist[b].lane /\ HandlerStarted(b))
               => HandlerEnded(a)

(***************************************************************************)
(* C7.  No poison-item retry loop: once the handler of a recovered item    *)
(* has finished, by returning or by raising, its record is completed and   *)
(* a later load_orphans() does not return it.                              *)
(***************************************************************************)
NoPoisonRetry ==
    \A n \in Recovered : HandlerEnded(n) => LoadedFor(hist[n].waq_id) = {}


(***************************************************************************)
(* C8.  Every enqueued item is eventually handled exactly once: without a  *)
(* crash and with handlers that end, each enqueue is followed by exactly   *)
(* one invocation of its handler, which ends; no handler is invoked twice. *)
(***************************************************************************)
EveryItemHandledOnce ==
    /\ [](\A n \in DOMAIN hist : hist[n].calls <= 1)
    /\ \A n \in 1..MaxEnqueues :
           [](n \in DOMAIN hist
                => <>(/\ n \in DOMAIN hist
                      /\ hist[n].calls = 1
                      /\ HandlerEnded(n)))

\* an item enqueued on a lane whose earlier worker has already exited has
\* been handled, and the lane is drained with no worker left
HandledAfterIdleWitness ==
    \E l \in DOMAIN queues : \E w \in DOMAIN workers :
        /\ workers[w].lane = l /\ workers[w].pc = "exited"
        /\ w < Len(workers) /\ workers[Len(workers)].lane = l
        /\ LiveWorkers(l) = {} /\ queues[l] = <<>>
        /\ \E a \in Enqueued, b \in Enqueued :
               /\ a < b /\ hist[a].lane = l /\ hist[b].lane = l
               /\ HandlerEnded(a) /\ HandlerEnded(b)

(***************************************************************************)
(* C9.  Lane independence: a handler of lane "x" that never returns does   *)
(* not keep the items of lane "y" from being handled to the end, and every *)
(* handler invocation is made by the worker of the lane the item was       *)
(* enqueued on, with that item's callback and payload.                     *)
(***************************************************************************)
LaneIndependence ==
    /\ [](\A n \in Enqueued :
              HandlerStarted(n) => /\ hist[n].by = hist[n].lane
                                   /\ hist[n].h = hist[n].cb
                                   /\ hist[n].got = hist[n].payload)
    /\ \A n \in 1..MaxEnqueues :
           []((n \in DOMAIN hist /\ hist[n].lane = "y")
                => <>(n \in DOMAIN hist /\ HandlerEnded(n)))

\* a handler of lane "x" and a handler of lane "y" are both in progress
BothLanesInProgress ==
    \E a \in Enqueued, b \in Enqueued :
        /\ hist[a].lane = "x" /\ hist[b].lane = "y"
        /\ HandlerInProgress(a) /\ HandlerInProgress(b)


(***************************************************************************)
(* C10.  Whitelist enforcement in the tool-calling loop: for a role whose  *)
(* whitelist is set (not None), a tool call whose name is not in the       *)
(* whitelist is never passed to the registry's execute; its tool-result    *)
(* turn carries the denial string naming the tool, and the next chat call  *)
(* receives that string as the content of the tool result with the call's  *)
(* id.                                                                     *)
(***************************************************************************)
WhitelistEnforced ==
    (spConfig # <<>> /\ ~spConfig[1].tools_whitelist.isNone) =>
        LET names == spConfig[1].tools_whitelist.names
        IN /\ \A i \in DOMAIN execLog : execLog[i] \in names
           /\ \A i \in DOMAIN toolLog :
                  toolLog[i].name \notin names =>
                      /\ toolLog[i].content = DenialString(toolLog[i].name)
                      /\ \E k \in DOMAIN chatLog[toolLog[i].round + 1].messages :
                             chatLog[toolLog[i].round + 1].messages[k] =
                                 Turn("tool", DenialString(toolLog[i].name),
                                      toolLog[i].id)


(***************************************************************************)
(* C11.  Round bound: whatever the model answers, one spawn call makes at  *)
(* most MAX_ROUNDS + 2 = 7 chat calls, handles tool calls in at most       *)
(* MAX_ROUNDS = 5 rounds and then returns a string (no exception leaves    *)
(* spawn); every call passed to the registry belongs to one of those       *)
(* rounds, so the tool calls of the response received at the round limit   *)
(* are not executed.                                                       *)
(***************************************************************************)
RoundBoundCounts ==
    /\ Len(chatLog) <= MAX_ROUNDS + 2
    /\ rounds <= MAX_ROUNDS
    /\ \A i \in DOMAIN toolLog : toolLog[i].round <= MAX_ROUNDS
    /\ spPc # "raised" =>
           Len(execLog) =
               Cardinality({i \in DOMAIN toolLog :
                   toolLog[i].content # DenialString(toolLog[i].name)})

RoundBound ==
    /\ RoundBoundCounts
    /\ spPc # "raised"
    /\ spPc = "done" => result # <<>>

(***************************************************************************)
(* C20.  Effective capability set: for a role whose whitelist W is not     *)
(* None, W = [] included, the tools given to the first chat call are       *)
(* exactly the registered tools whose name is in W (none for W = []), and  *)
(* every requested tool whose name is outside W gets the denial string;    *)
(* only the whitelist None leaves the role unrestricted.                   *)
(***************************************************************************)
EffectiveCapabilitySet ==
    (spConfig # <<>> /\ chatLog # <<>>) =>
        LET wl == spConfig[1].tools_whitelist
        IN /\ chatLog[1].tools =
                  IF wl.isNone THEN RegisteredTools
                  ELSE RegisteredTools \cap wl.names
           /\ ~wl.isNone =>
                  \A i \in DOMAIN toolLog :
                      toolLog[i].name \notin wl.names =>
                          toolLog[i].content = DenialString(toolLog[i].name)


(***************************************************************************)
(* C12.  The registry's execute never raises: execute(name, args) returns  *)
(* an error string, and raises nothing, when name is not registered and    *)
(* when the registered function raises; in both cases self._tools, and so  *)
(* the schemas, are as they were before the call.                          *)
(***************************************************************************)
ErrorStrings(tool_name) ==
    {Text("Error: herramienta no encontrada.", tool_name),
     Text("Error ejecutando", tool_name)}

FailedInvocation ==
    /\ mcpLast.op = "execute"
    /\ \/ ~DictHas(mcpLast.before, mcpLast.tool_name)
       \/ DictGet(mcpLast.before, mcpLast.tool_name).function.raises

ExecuteNeverRaisesOnFailure ==
    FailedInvocation =>
        /\ ~mcpLast.raised
        /\ mcpLast.value \in ErrorStrings(mcpLast.tool_name)
        /\ mcpTools = mcpLast.before
        /\ GetSchemas(mcpTools) = GetSchemas(mcpLast.before)

(***************************************************************************)
(* C13.  Registration by name replaces: after any sequence of              *)
(* registrations get_schemas() holds exactly one schema per registered     *)
(* name; the schema of a name and the function execute(name) calls are     *)
(* both those of the latest registration of that name, and a registration  *)
(* leaves the entries of the other names as they were.                     *)
(***************************************************************************)
SchemasOf(name) ==
    {i \in DOMAIN GetSchemas(mcpTools) :
        GetSchemas(mcpTools)[i].function.name = name}

RegistrationReplaces ==
    /\ {GetToolNames(mcpTools)[i] : i \in DOMAIN mcpTools} = DOMAIN mcpLatest
    /\ Len(GetSchemas(mcpTools)) = Cardinality(DOMAIN mcpLatest)
    /\ \A n \in DOMAIN mcpLatest :
           LET latest == mcpLatest[n].entry
           IN /\ Cardinality(SchemasOf(n)) = 1
              /\ \A i \in SchemasOf(n) :
                     GetSchemas(mcpTools)[i] = latest.schema
              /\ DictGet(mcpTools, n).function = latest.function
              /\ McpExecute(mcpTools, n) =
                     IF latest.function.raises THEN Text("Error ejecutando", n)
                     ELSE Text("resultado", latest.function.id)

RegistrationReplacesWitness ==
    /\ DOMAIN mcpLatest = ToolNames
    /\ mcpLatest["t1"].replaced
    /\ mcpLatest["t1"].entry.function = Fn("f2", FALSE)
    /\ mcpLatest["t1"].entry.schema.function.description = "d2"
    /\ mcpLast.op = "execute"
    /\ mcpLast.tool_name = "t1"
    /\ mcpLast.args = {"query"}
    /\ mcpLast.value = Text("resultado", "f2")

(***************************************************************************)
(* C14.  Plugin load isolation: after discovery over a directory, a module *)
(* that raises while loading or that lacks SKILL_NAME or execute is not in *)
(* the loaded-plugin table, and every valid module of the directory,       *)
(* scanned before or after it, is loaded (under its name, unless a valid   *)
(* module scanned later has the same name); discovery itself ends          *)
(* normally.                                                               *)
(***************************************************************************)
Scanned(stem) == files[stem] # <<>> /\ ~Hidden(stem)

ValidModule(stem) ==
    /\ Scanned(stem)
    /\ ~files[stem][1].src.raises
    /\ files[stem][1].src.skill_name # <<>>
    /\ files[stem][1].src.has_execute

Position(stem) == CHOOSE i \in DOMAIN SortedStems : SortedStems[i] = stem

PluginLoadIsolation ==
    pmLast.op = "discover" =>
        /\ pmPc = "ready"
        /\ \A stem \in Stems :
               Scanned(stem) =>
                   IF ValidModule(stem)
                   THEN LET src == files[stem][1].src
                            name == src.skill_name[1]
                        IN /\ name \in DOMAIN plugins
                           /\ \/ plugins[name] = Module(stem, src)
                              \/ \E later \in Stems :
                                     /\ Position(later) > Position(stem)
                                     /\ ValidModule(later)
                                     /\ plugins[name] =
                                            Module(later, files[later][1].src)
                   ELSE \A name \in DOMAIN plugins :
                            plugins[name].file # stem

PluginLoadIsolationWitness ==
    /\ pmLast.op = "discover"
    /\ files["a"] = <<File(Broken, 0)>>
    /\ DOMAIN plugins = {"q"}
    /\ plugins["q"] = Module("b", Q1)

(***************************************************************************)
(* C15.  Plugin run timeout: a call of run() that has started a thread     *)
(* always returns, even if execute never ends; when the thread is still    *)
(* alive after join() the value returned is the timeout string and the     *)
(* thread is left running, not waited for; and the value a call returns    *)
(* comes from its own thread only, so the late result or exception of an   *)
(* abandoned thread is never returned by this or a later call.             *)
(***************************************************************************)
TimeoutString(name) == Text("Timeout: el plugin tardo mas de", name)

OwnOutcome(thread, value) ==
    /\ thread.state = "running" => value = TimeoutString(thread.name)
    /\ thread.state = "raised" => value = Text("Error en plugin", thread.name)
    /\ thread.state = "returned" => value = Text("resultado", thread.code.id)

PluginRunTimeout ==
    /\ [][RunReturn =>
            LET n == runCall[1].n
            IN /\ OwnOutcome(threads[n], lastRun'.value)
               /\ threads[n].state = "running" =>
                      /\ n \in DOMAIN threads'
                      /\ threads'[n].state = "running"]_vars
    /\ (runCall # <<>>) ~> (runCall = <<>>)

PluginRunTimeoutWitness ==
    /\ lastRun.prev = <<"p", "running">>
    /\ lastRun.name = "q"
    /\ lastRun.value = Text("resultado", "q1")
    /\ 1 \in DOMAIN threads
    /\ threads[1].name = "p"
    /\ threads[1].state = "returned"

(***************************************************************************)
(* C16.  Plugin execution isolation: when execute raises, run() returns    *)
(* the error string of that plugin, the loaded-plugin table is as before,  *)
(* and a later run of another loaded module whose execute returns gives    *)
(* that module's result.                                                   *)
(***************************************************************************)
PluginExecutionIsolation ==
    [][/\ (\E n \in DOMAIN threads : ThreadRaises(n)) => plugins' = plugins
       /\ RunReturn =>
              LET thread == threads[runCall[1].n]
              IN /\ plugins' = plugins
                 /\ thread.state = "raised" =>
                        lastRun'.value = Text("Error en plugin", thread.name)
                 /\ thread.state = "returned" =>
                        lastRun'.value = Text("resultado", thread.code.id)]_vars

PluginExecutionIsolationWitness ==
    /\ lastRun.prev = <<"p", "raised">>
    /\ lastRun.name = "q"
    /\ lastRun.state = "returned"
    /\ lastRun.value = Text("resultado", "q1")
    /\ DOMAIN plugins = {"p", "q"}

(***************************************************************************)
(* C17.  Reload takes effect: when reload(name) has reported success, a    *)
(* run(name) that follows executes the code of the file as it is on disk,  *)
(* whatever change was made to the file between load and reload.           *)
(***************************************************************************)
ReloadedOk(name) ==
    /\ pmLast.op = "reload"
    /\ pmLast.name = name
    /\ pmLast.ok

ReloadTakesEffect ==
    [][\A name \in PluginNames :
           (RunStart(name) /\ ReloadedOk(name)) =>
               /\ (runs + 1) \in DOMAIN threads'
               /\ threads'[runs + 1].code =
                      files[plugins[name].file][1].src]_vars

(***************************************************************************)
(* C18.  Install validates before persisting: install_from_github writes   *)
(* the fetched text into the plugin directory only if the text contains    *)
(* both SKILL_NAME and def execute; when the url is rejected, the download *)
(* fails or the text fails that test, no file is created, the              *)
(* loaded-plugin table is unchanged and a rejection string is returned.    *)
(***************************************************************************)
RejectionStrings ==
    {Text("La URL debe apuntar a un archivo .py.", ""),
     Text("Nombre de archivo no valido", ""),
     Text("El plugin ya existe.", ""),
     Text("Error al descargar el plugin", ""),
     Text("El archivo descargado no parece ser un plugin valido", "")}

\* the url is rejected before any download: by its ending, by its file
\* name, or because the file is there already
UrlRejected(url) ==
    \/ ~url.ends_py
    \/ ~url.name_ok
    \/ files[url.stem] # <<>>

\* the download fails, or its text fails the textual test
DownloadRejected(fetched) ==
    \/ fetched = <<>>
    \/ ~fetched[1].text_name
    \/ ~fetched[1].text_execute

InstallValidatesFirst ==
    [][/\ \A url \in InstallUrls :
              InstallFromGithub(url) =>
                  /\ files' = files
                  /\ plugins' = plugins
                  /\ UrlRejected(url) =>
                         /\ installCall' = <<>>
                         /\ pmLast'.value \in RejectionStrings
       /\ \A fetched \in Downloads, same_second \in BOOLEAN :
              InstallDownloaded(fetched, same_second) =>
                  LET stem == installCall[1].stem
                  IN /\ files' # files =>
                            /\ fetched # <<>>
                            /\ fetched[1].text_name
                            /\ fetched[1].text_execute
                            /\ files'[stem] # <<>>
                            /\ files' =
                                   [files EXCEPT ![stem] =
                                       <<File(fetched[1],
                                              files'[stem][1].mtime)>>]
                     /\ DownloadRejected(fetched) =>
                            /\ files' = files
                            /\ plugins' = plugins
                            /\ pmLast'.value \in RejectionStrings]_vars

InstallValidatesFirstWitness ==
    /\ pmLast.op = "install"
    /\ pmLast.value =
           Text("El archivo descargado no parece ser un plugin valido", "")
    /\ files["b"] = <<>>
    /\ DOMAIN plugins = {"p"}

(***************************************************************************)
(* C19.  Failed reload keeps the old version: when reload(name) fails      *)
(* because the file on disk now raises while loading or lacks SKILL_NAME   *)
(* or execute, the module loaded before stays in the table under name and  *)
(* a run(name) that follows executes the old code; reload never leaves     *)
(* name out of the table.                                                  *)
(***************************************************************************)
ReloadFailed(name) ==
    /\ pmLast.op = "reload"
    /\ pmLast.name = name
    /\ pmLast.found
    /\ ~pmLast.ok

FailedReloadKeepsOld ==
    [][\A name \in PluginNames :
           /\ (Reload(name) /\ name \in DOMAIN plugins) =>
                  /\ name \in DOMAIN plugins'
                  /\ ~pmLast'.ok => plugins' = plugins
           /\ (RunStart(name) /\ ReloadFailed(name)) =>
                  /\ (runs + 1) \in DOMAIN threads'
                  /\ threads'[runs + 1].code = pmLast.old]_vars

FailedReloadKeepsOldWitness ==
    /\ ReloadFailed("p")
    /\ files["a"] = <<File(Broken, 1)>>
    /\ "p" \in DOMAIN plugins
    /\ plugins["p"] = Module("a", V1)

(***************************************************************************)
(* C21.  Conversation ordering in a round: a round appends to the          *)
(* conversation the assistant turn that requested the tool calls and then  *)
(* one tool turn per requested call, in the order of the calls and each    *)
(* with the id of its call and the result of its call; the turns already   *)
(* in the conversation stay where they are, and the system turn and the    *)
(* user turn are the first two.                                            *)
(***************************************************************************)
IsPrefix(s, t) == Len(s) <= Len(t) /\ SubSeq(t, 1, Len(s)) = s

RoundAppends ==
    LET calls == response.tool_calls
        base == Len(messages)
        wl == spConfig[1].tools_whitelist
    IN /\ Len(messages') = base + 1 + Len(calls)
       /\ messages'[base + 1] = response
       /\ \A i \in DOMAIN calls :
              /\ messages'[base + 1 + i].role = "tool"
              /\ messages'[base + 1 + i].tool_call_id = calls[i].id
              /\ messages'[base + 1 + i].content =
                     ResultStr(wl, SpawnerRegistry, calls[i].name)

ConversationOrdering ==
    /\ [](messages # <<>> =>
              /\ messages[1].role = "system"
              /\ messages[2].role = "user"
              /\ \A i \in 3..Len(messages) :
                     messages[i].role \in {"assistant", "tool"})
    /\ [][/\ messages # <<>> => IsPrefix(messages, messages')
          /\ \A resp \in Responses :
                 (SpawnRound(resp) /\ messages' # messages) =>
                     RoundAppends]_vars

ConversationOrderingWitness ==
    /\ rounds = 2
    /\ Len(messages) = 7
    /\ messages[3].tool_calls =
           <<ToolCall("tc_1", "ejecutar_comando", {}),
             ToolCall("tc_2", "buscar_web", {"query"})>>
    /\ messages[4].tool_call_id = "tc_1"
    /\ messages[5].tool_call_id = "tc_2"
    /\ messages[6].role = "assistant"
    /\ messages[7].role = "tool"

(***************************************************************************)
(* C22.  Fallback on empty final content: when the loop has stopped and    *)
(* the content of the last response is missing, None or the empty string,  *)
(* the block returned by spawn carries the fallback text.                  *)
(***************************************************************************)
EmptyContent(resp) ==
    \/ ~resp.has_content
    \/ resp.content = PyNone
    \/ resp.content = Text("", "")

FallbackOnEmptyContent ==
    (spPc = "done" /\ spConfig # <<>> /\ EmptyContent(response)) =>
        result[1].body = FallbackText

(***************************************************************************)
(* C25.  One loop for both agents: given the same responses of the model,  *)
(* Assistant.process makes the same calls of Chat and the same capability  *)
(* invocations, in the same order, as spawn with a role whose whitelist is *)
(* None.  The responses a call was given are the assistant turns of its    *)
(* conversation and its last response; when the responses given to one of  *)
(* two ended calls are the first of those given to the other, the model    *)
(* answered both alike, and neither may stop where the other asked again.  *)
(***************************************************************************)
IsAssistantTurn(turn) == turn.role = "assistant"

Replies(msgs, last) == Append(SelectSeq(msgs, IsAssistantTurn), last)

SpawnEnded ==
    /\ spPc \in {"done", "raised"}
    /\ spConfig # <<>>
    /\ spConfig[1].tools_whitelist = WlNone

ProcessEnded == asPc \in {"done", "raised"}

SameResponsesSoFar ==
    \/ IsPrefix(Replies(messages, response), Replies(asMessages, asResponse))
    \/ IsPrefix(Replies(asMessages, asResponse), Replies(messages, response))

OneLoopForBothAgents ==
    (SpawnEnded /\ ProcessEnded /\ SameResponsesSoFar) =>
        /\ Len(chatLog) = asChats
        /\ execLog = asExecLog
        /\ (spPc = "raised") = (asPc = "raised")

(***************************************************************************)
(* C26.  Complete is an idempotent, local cleanup: complete(id) for an id  *)
(* that has no record (never written, or completed before) ends normally   *)
(* and leaves the directory as it is; complete(id) for an id that has a    *)
(* record removes that file only, so that load_orphans returns afterwards  *)
(* what it returned before without the item of id, every other pending     *)
(* record of the same and of the other lanes included.                     *)
(***************************************************************************)
CompleteIsLocal ==
    [][\A waq_id \in {r.waq_id : r \in wlog} \cup {StrayWaqId} :
           StoreComplete(waq_id) =>
               /\ waq_id \notin FileNames(disk) => disk' = disk
               /\ \A f \in disk : (f.name # waq_id <=> f \in disk')
               /\ disk' \subseteq disk
               /\ LET before == LoadOrphans(disk)
                      kept == {i \in DOMAIN before :
                                   before[i].waq_id # waq_id}
                  IN /\ Len(LoadOrphans(disk')) = Cardinality(kept)
                     /\ \A i \in kept :
                            \E j \in DOMAIN LoadOrphans(disk') :
                                LoadOrphans(disk')[j] = before[i]]_vars

CompleteIsLocalWitness ==
    \E done \in wlog, same \in wlog, other \in wlog :
        /\ done.done /\ done.waq_id \notin FileNames(disk)
        /\ ~same.done /\ same.lane_id = done.lane_id
        /\ ~other.done /\ other.lane_id # done.lane_id
        /\ LoadedFor(same.waq_id) # {}
        /\ LoadedFor(other.waq_id) # {}

(***************************************************************************)
(* C27.  Transient store failures do not abort work: when the record of an *)
(* item cannot be persisted, enqueue still ends normally with the item     *)
(* appended to the queue of its lane; until its handler is invoked the     *)
(* item stays in the queue and a worker of the lane is alive; the handler  *)
(* is invoked with the item's payload, after the handlers of the items     *)
(* enqueued before it on the lane were invoked; and load_orphans returns   *)
(* every readable record whatever unreadable files lie next to it.  The    *)
(* complete made when the handler of such an item ends is not always a     *)
(* no-op: a write that failed while encoding leaves an empty file, and     *)
(* complete unlinks it.  What holds is that this complete removes nothing  *)
(* but the item's own unreadable file, so that every other file stays and  *)
(* load_orphans returns the same records before and after it.              *)
(***************************************************************************)
Unpersisted(n) ==
    /\ n \in DOMAIN hist
    /\ hist[n].via = "enqueue"
    /\ hist[n].waq_id # NoWaqId
    /\ ~hist[n].persisted

EnqueueAppends(lane_id, payload) ==
    /\ Len(hist') = Len(hist) + 1
    /\ queues'[lane_id] # <<>>
    /\ queues'[lane_id][Len(queues'[lane_id])].n = nextN
    /\ queues'[lane_id][Len(queues'[lane_id])].payload = payload
    /\ lane_id \in DOMAIN queues =>
           SubSeq(queues'[lane_id], 1, Len(queues[lane_id])) =
               queues[lane_id]
    /\ \E w \in DOMAIN workers' :
           /\ workers'[w].lane = lane_id
           /\ workers'[w].pc \notin {"exited", "failed"}

\* an item whose record was not persisted and whose handler was not
\* invoked yet is in the queue of its lane, and a worker of the lane is
\* alive to take it
WaitingHasWorker ==
    \A n \in DOMAIN hist :
        (Unpersisted(n) /\ ~HandlerStarted(n)) =>
            /\ \E i \in DOMAIN queues[hist[n].lane] :
                   /\ queues[hist[n].lane][i].n = n
                   /\ queues[hist[n].lane][i].payload = hist[n].payload
            /\ LiveWorkers(hist[n].lane) # {}

ReadableLoaded ==
    \A f \in disk :
        f.text # <<>> =>
            \E i \in DOMAIN LoadOrphans(disk) :
                /\ LoadOrphans(disk)[i].waq_id = f.name
                /\ LoadOrphans(disk)[i].lane_id = f.text[1].lane_id

\* enqueue of a payload the store cannot persist ends with the item queued
EnqueueTolerates ==
    \A p \in UnwritablePayloads :
        Enqueue("x", p, CallbackFactory("x")) => EnqueueAppends("x", p)

\* a worker hands the handler the payload that was enqueued, after the
\* handlers of the earlier items of the lane were invoked
InvokedInOrder ==
    \A w \in DOMAIN workers :
        WorkerPop(w) =>
            LET n == Head(queues[workers[w].lane]).n
            IN /\ hist'[n].got = hist[n].payload
               /\ \A k \in 1..(n - 1) :
                      hist[k].lane = hist[n].lane => HandlerStarted(k)

\* the step in which worker w's handler ends and the wrapper calls complete
\* for an item whose record was not persisted
CompletesUnpersisted(w) ==
    /\ HandlerEnd(w, "returned") \/ HandlerEnd(w, "raised")
    /\ Unpersisted(workers[w].cur[1].n)

\* the statement as the claim words it: that complete changes nothing
TransientFailuresAsStated ==
    /\ []ReadableLoaded
    /\ []WaitingHasWorker
    /\ [][/\ EnqueueTolerates
          /\ InvokedInOrder
          /\ \A w \in DOMAIN workers :
                 CompletesUnpersisted(w) => disk' = disk]_vars

\* C27 as it holds: the complete of an unpersisted item removes at most the
\* item's own file, that file is an unreadable (empty) one, and the records
\* load_orphans returns are the same before and after
TransientFailuresTolerated ==
    /\ []ReadableLoaded
    /\ []WaitingHasWorker
    /\ [][/\ EnqueueTolerates
          /\ InvokedInOrder
          /\ \A w \in DOMAIN workers :
                 CompletesUnpersisted(w) =>
                     LET r == hist[workers[w].cur[1].n].waq_id
                     IN /\ disk' = {f \in disk : f.name # r}
                        /\ \A f \in disk : f.name = r => f.text = <<>>
                        /\ LoadOrphans(disk') = LoadOrphans(disk)]_vars

\* item 1 could not be encoded, its handler returned and complete removed
\* the empty file its write had left; item 2's write left an empty file
\* that is still there; item 3 is persisted and is the one record loaded
TransientFailuresToleratedWitness ==
    /\ Len(hist) = 3
    /\ Unpersisted(1) /\ hist[1].payload = PyStr("lone_surrogate")
    /\ hist[1].fin = "returned"
    /\ \A f \in disk : f.name # hist[1].waq_id
    /\ Unpersisted(2) /\ hist[2].payload = PyStr("lone_surrogate")
    /\ ~HandlerStarted(2)
    /\ \E f \in disk : f.name = hist[2].waq_id /\ f.text = <<>>
    /\ hist[3].persisted
    /\ Len(LoadOrphans(disk)) = 1
    /\ LoadOrphans(disk)[1].waq_id = hist[3].waq_id

(***************************************************************************)
(* C28.  Observability is accurate: in every state, for every lane,        *)
(* is_active(lane) and the 'active' flag of all_lanes_status are true      *)
(* exactly when a worker task of the lane exists that has not ended; and   *)
(* when they are false and no such task exists the depth is 0.             *)
(***************************************************************************)
ObservabilityAccurate ==
    \A l \in Lanes :
        /\ IsActive(active, l) <=> (LiveWorkers(l) # {})
        /\ l \in DOMAIN queues =>
               /\ AllLanesStatus(queues, active)[l].active
                      <=> (LiveWorkers(l) # {})
               /\ AllLanesStatus(queues, active)[l].pending
                      = QueueSize(queues, l)
        /\ (LiveWorkers(l) = {}) => QueueSize(queues, l) = 0

(***************************************************************************)
(* C30.  Predefined roles cannot be overridden: whatever configs were      *)
(* given to register_role, spawn of a predefined role uses the predefined  *)
(* config, its system prompt in the first turn and its whitelist for the   *)
(* tools offered and for every call handled; spawn of any other role uses  *)
(* the config registered under that name.                                  *)
(***************************************************************************)
PredefinedRolesKept ==
    [][/\ \A r \in RoleArgs, resp \in Responses :
              (SpawnStart(r, resp) /\ spConfig' # <<>>) =>
                  LET config == IF r \in DOMAIN PREDEFINED_ROLES
                                THEN PREDEFINED_ROLES[r]
                                ELSE customRoles[r]
                  IN /\ spConfig' = <<config>>
                     /\ messages'[1].content = Text(config.system_prompt, "")
                     /\ chatLog'[1].tools =
                            FilterTools(RegisteredTools,
                                        config.tools_whitelist)
       /\ \A resp \in Responses :
              (SpawnRound(resp) /\ spConfig[1].role \in DOMAIN PREDEFINED_ROLES)
                  => \A i \in DOMAIN execLog' :
                         execLog'[i] \in
                             PREDEFINED_ROLES[spConfig[1].role]
                                 .tools_whitelist.names
       /\ spConfig # <<>> => spConfig' = spConfig]_vars

PredefinedRolesKeptWitness ==
    /\ "investigador" \in DOMAIN customRoles
    /\ customRoles["investigador"].tools_whitelist = WlNone
    /\ spConfig = <<PREDEFINED_ROLES["investigador"]>>
    /\ chatLog[1].tools = {"buscar_web"}
    /\ \E i \in DOMAIN toolLog :
           /\ toolLog[i].name = "ejecutar_comando"
           /\ toolLog[i].content = DenialString("ejecutar_comando")
    /\ execLog = <<>>

(***************************************************************************)
(* C23.  Manifest refreshed on every load/reload: for every loaded plugin, *)
(* the manifest in memory and the manifest file carry the version, the     *)
(* author and the actions declared by the module version that is loaded;   *)
(* no field keeps the value of a version that was replaced.                *)
(***************************************************************************)
DeclaredBy(manifest, code) ==
    /\ manifest.version = GetAttr(ModuleConstants(code).version, "0.0.0")
    /\ manifest.author = GetAttr(ModuleConstants(code).author, "local")
    /\ manifest.actions = GetAttr(ModuleConstants(code).actions, {})

ManifestRefreshed ==
    \A name \in DOMAIN plugins :
        /\ name \in DOMAIN manifests
        /\ name \in DOMAIN manifestFiles
        /\ DeclaredBy(manifests[name], plugins[name].code)
        /\ DeclaredBy(manifestFiles[name], plugins[name].code)

(***************************************************************************)
(* C24.  Reload replaces the plugin's registry entries: after reload(name) *)
(* has reported success, the registry entries named plugin_<name>_<tool>   *)
(* are those the loaded version of the module declares, each with the      *)
(* function of that version; a tool that version does not declare is not   *)
(* in the registry.                                                        *)
(***************************************************************************)
DeclaredTools(code) ==
    LET mcp_tools == GetAttr(ModuleConstants(code).mcp_tools, <<>>)
    IN {mcp_tools[i] : i \in DOMAIN mcp_tools}

ReloadReplacesRegistryEntries ==
    \A name \in PluginNames :
        (ReloadedOk(name) /\ name \in DOMAIN plugins) =>
            \A tool \in {"t1", "t2"} :
                LET declared == {d \in DeclaredTools(plugins[name].code) :
                                     d.name = tool}
                    entry == PluginToolName(name, tool)
                IN IF declared = {} THEN ~DictHas(pmTools, entry)
                   ELSE /\ DictHas(pmTools, entry)
                        /\ \E d \in declared :
                               DictGet(pmTools, entry).function = d.fn

(***************************************************************************)
(* C29.  Disable is sticky within a manager: in every state reached by     *)
(* calls of run, reload, reload_all and disable, every plugin of the       *)
(* loaded-plugin table has a manifest with enabled = true, so a plugin     *)
(* that was disabled is not in the table.                                  *)
(***************************************************************************)
DisableIsSticky ==
    \A name \in DOMAIN plugins :
        /\ name \in DOMAIN manifests
        /\ manifests[name].enabled
        /\ manifestFiles[name].enabled

=============================================================================
